---- MODULE Spec2Model ----
(***************************************************************************)
(* A model of the classification back end of Computer_Error_Detection:     *)
(* the rule table and match_rule (rules.py), the error-type and            *)
(* product-need cascades (app.py), the hierarchical predictor              *)
(* (hierarchical_inference.py), the related-component tables               *)
(* (multi_component_mapping.py) and the feedback store                     *)
(* (feedback_storage.py).                                                  *)
(*                                                                         *)
(* Conventions.  A Python str is a tuple of one-character strings, so that *)
(* `kw in text`, str.lower, str.strip and re.search are computed on the    *)
(* characters.  Labels, sources and explanations, which the code only      *)
(* copies and compares, are TLA+ strings.  A confidence is an integer      *)
(* number of 1/10000 (0.88 is 8800).  Python's None is the value None.     *)
(***************************************************************************)
EXTENDS Integers, Sequences, FiniteSets, TLC

\* HIERARCHICAL_AVAILABLE, error_nlp_model, product_need_model: the globals
\*   of app.py set at import
\* model_files: the two .pkl files and the .json file next to
\*   hierarchical_inference.py
\* hierarchical_globals: the lazily loaded globals of hierarchical_inference
\* feedback_csv: the file FEEDBACK_CSV
\* call: the last call the service answered, with its response
\* in_flight: the concurrent calls of save_feedback, or of _load_models, each
\*   at its statement
\* retrain: the run of retrain_with_feedback.py
VARIABLES HIERARCHICAL_AVAILABLE, error_nlp_model, product_need_model, model_files,
          hierarchical_globals, feedback_csv, call, in_flight, retrain

vars == <<HIERARCHICAL_AVAILABLE, error_nlp_model, product_need_model, model_files,
          hierarchical_globals, feedback_csv, call, in_flight, retrain>>

None == "None"

\* list(f): the list of the values f[1], ..., f[n] of a function on 1..n
list(f) == <<>> \o f

\* ------------------------------------------------------------------------
\* str methods and operators
\* ------------------------------------------------------------------------
UpperChars == <<"A","B","C","D","E","F","G","H","I","J","K","L","M","N","O","P","Q","R","S","T","U","V","W","X","Y","Z">>

LowerChars == <<"a","b","c","d","e","f","g","h","i","j","k","l","m","n","o","p","q","r","s","t","u","v","w","x","y","z">>

Digits == {"0","1","2","3","4","5","6","7","8","9"}

\* str.lower on one character
lower_char(c) ==
  IF \E i \in 1..26 : UpperChars[i] = c
  THEN LowerChars[CHOOSE i \in 1..26 : UpperChars[i] = c]
  ELSE c

\* str.lower
lower(t) == list([i \in 1..Len(t) |-> lower_char(t[i])])

\* the characters str.strip removes
Whitespace == {" ", "\t", "\n", "\r", "\f"}

\* str.strip
strip(t) ==
  LET idx == {i \in 1..Len(t) : t[i] \notin Whitespace}
  IN IF idx = {} THEN <<>>
     ELSE SubSeq(t, CHOOSE i \in idx : \A j \in idx : i <= j,
                    CHOOSE i \in idx : \A j \in idx : i >= j)

\* kw in t
Contains(t, kw) ==
  \E i \in 0..(Len(t) - Len(kw)) : \A j \in 1..Len(kw) : t[i + j] = kw[j]

\* any(kw in t for kw in kws)
any_in(kws, t) == \E k \in 1..Len(kws) : Contains(t, kws[k])

\* sum(1 for kw in kws if kw in t)
count_in(kws, t) == Cardinality({k \in 1..Len(kws) : Contains(t, kws[k])})

\* ------------------------------------------------------------------------
\* re.search for the patterns of the source.  A pattern is a sequence of
\* alternatives (its | branches, a (a|b) group expanded); an alternative is
\* [parts, word]: the literals of parts occur in this order, separated by
\* `.*` (any characters but a newline), and word says that the alternative
\* is written \b...\b.
\* ------------------------------------------------------------------------
\* \w
is_word_char(c) ==
  \/ \E i \in 1..26 : UpperChars[i] = c \/ LowerChars[i] = c
  \/ c \in Digits
  \/ c = "_"

\* \b between t[i] and t[i+1] (the ends of t count as non-word characters)
word_boundary(t, i) ==
  LET before == i >= 1 /\ i <= Len(t) /\ is_word_char(t[i])
      after == i + 1 >= 1 /\ i + 1 <= Len(t) /\ is_word_char(t[i + 1])
  IN before # after

\* lit occurs in t starting at t[i]
occurs_at(t, lit, i) ==
  /\ i >= 1
  /\ i + Len(lit) - 1 <= Len(t)
  /\ \A j \in 1..Len(lit) : t[i + j - 1] = lit[j]

\* `.*` can consume t[a..b]
no_newline(t, a, b) == \A j \in a..b : t[j] # "\n"

RECURSIVE match_parts(_, _, _, _, _)
\* parts[k..] match t with parts[k] starting at or after t[e], only `.*`
\* in between
match_parts(parts, word, t, k, e) ==
  \E st \in e..(Len(t) + 1) :
    /\ occurs_at(t, parts[k], st)
    /\ k > 1 => no_newline(t, e, st - 1)
    /\ (k = 1 /\ word) => word_boundary(t, st - 1)
    /\ IF k = Len(parts)
       THEN word => word_boundary(t, st + Len(parts[k]) - 1)
       ELSE match_parts(parts, word, t, k + 1, st + Len(parts[k]))

\* re.search(pattern, t) is not None
re_search(alts, t) ==
  \E a \in 1..Len(alts) : match_parts(alts[a].parts, alts[a].word, t, 1, 1)

\* ------------------------------------------------------------------------
\* rules.py: RULES, in declaration order
\* ------------------------------------------------------------------------
RULES == <<
  \* rule 1, rules.py 14-20: 'ps not start'
  [is_list |-> FALSE, keywords |-> <<"p","s"," ","n","o","t"," ","s","t","a","r","t">>,
   component |-> "PSU Upgrade", confidence |-> 9500,
   explanation |-> "Power supply not starting indicates PSU failure. Also check power cable.",
   related_components |-> <<"Power Cable Replacement">>],
  \* rule 2, rules.py 21-27: 'pc not start'
  [is_list |-> FALSE, keywords |-> <<"p","c"," ","n","o","t"," ","s","t","a","r","t">>,
   component |-> "PSU Upgrade", confidence |-> 9400,
   explanation |-> "PC not starting could be PSU or power cable issue.",
   related_components |-> <<"Power Cable Replacement">>],
  \* rule 3, rules.py 28-34: 'no power'
  [is_list |-> FALSE, keywords |-> <<"n","o"," ","p","o","w","e","r">>,
   component |-> "PSU Upgrade", confidence |-> 9500,
   explanation |-> "No power usually means PSU failure.",
   related_components |-> <<"Power Cable Replacement">>],
  \* rule 4, rules.py 37-43: 'pc slow'
  [is_list |-> FALSE, keywords |-> <<"p","c"," ","s","l","o","w">>,
   component |-> "RAM Upgrade", confidence |-> 9000,
   explanation |-> "Slow PC often needs RAM or SSD upgrade.",
   related_components |-> <<"SSD Upgrade", "CPU Upgrade">>],
  \* rule 5, rules.py 44-50: 'pc vey slow'
  [is_list |-> FALSE, keywords |-> <<"p","c"," ","v","e","y"," ","s","l","o","w">>,
   component |-> "RAM Upgrade", confidence |-> 9000,
   explanation |-> "Very slow PC typically needs RAM or SSD upgrade.",
   related_components |-> <<"SSD Upgrade">>],
  \* rule 6, rules.py 51-57: 'computer slow'
  [is_list |-> FALSE, keywords |-> <<"c","o","m","p","u","t","e","r"," ","s","l","o","w">>,
   component |-> "RAM Upgrade", confidence |-> 9000,
   explanation |-> "Slow computer usually needs RAM or SSD upgrade.",
   related_components |-> <<"SSD Upgrade">>],
  \* rule 7, rules.py 60-66: 'no internet'
  [is_list |-> FALSE, keywords |-> <<"n","o"," ","i","n","t","e","r","n","e","t">>,
   component |-> "WiFi Adapter Upgrade", confidence |-> 9200,
   explanation |-> "No internet could be WiFi adapter or router issue.",
   related_components |-> <<"Router Upgrade">>],
  \* rule 8, rules.py 67-73: 'no internet in my pc'
  [is_list |-> FALSE, keywords |-> <<"n","o"," ","i","n","t","e","r","n","e","t"," ","i","n"," ","m","y"," ","p","c">>,
   component |-> "WiFi Adapter Upgrade", confidence |-> 9200,
   explanation |-> "No internet on PC suggests WiFi adapter or router problem.",
   related_components |-> <<"Router Upgrade">>],
  \* rule 9, rules.py 76-81: ['no display', 'fans spinning', 'no signal']
  [is_list |-> TRUE, keywords |-> <<<<"n","o"," ","d","i","s","p","l","a","y">>, <<"f","a","n","s"," ","s","p","i","n","n","i","n","g">>, <<"n","o"," ","s","i","g","n","a","l">>>>,
   component |-> "Monitor or GPU Check", confidence |-> 9500,
   explanation |-> "No display with fans spinning typically indicates a GPU or monitor issue. Check GPU connections and monitor cables first.",
   related_components |-> <<>>],
  \* rule 10, rules.py 82-87: ['no display', 'black screen', 'fans working']
  [is_list |-> TRUE, keywords |-> <<<<"n","o"," ","d","i","s","p","l","a","y">>, <<"b","l","a","c","k"," ","s","c","r","e","e","n">>, <<"f","a","n","s"," ","w","o","r","k","i","n","g">>>>,
   component |-> "Monitor or GPU Check", confidence |-> 9500,
   explanation |-> "Black screen with working fans suggests a display or GPU problem. Verify monitor connections and GPU seating.",
   related_components |-> <<>>],
  \* rule 11, rules.py 90-95: 'pc shuts down instantly'
  [is_list |-> FALSE, keywords |-> <<"p","c"," ","s","h","u","t","s"," ","d","o","w","n"," ","i","n","s","t","a","n","t","l","y">>,
   component |-> "PSU Upgrade", confidence |-> 9600,
   explanation |-> "Instant shutdowns are typically caused by power supply failure. The PSU cannot provide stable power to components.",
   related_components |-> <<>>],
  \* rule 12, rules.py 96-101: 'immediate shutdown'
  [is_list |-> FALSE, keywords |-> <<"i","m","m","e","d","i","a","t","e"," ","s","h","u","t","d","o","w","n">>,
   component |-> "PSU Upgrade", confidence |-> 9600,
   explanation |-> "Immediate shutdowns indicate power supply failure. Replace the PSU.",
   related_components |-> <<>>],
  \* rule 13, rules.py 102-107: ['random shutdown', 'power issue', 'turns off randomly']
  [is_list |-> TRUE, keywords |-> <<<<"r","a","n","d","o","m"," ","s","h","u","t","d","o","w","n">>, <<"p","o","w","e","r"," ","i","s","s","u","e">>, <<"t","u","r","n","s"," ","o","f","f"," ","r","a","n","d","o","m","l","y">>>>,
   component |-> "PSU Upgrade", confidence |-> 9400,
   explanation |-> "Random shutdowns often indicate insufficient or failing power supply. Upgrade to a higher wattage PSU.",
   related_components |-> <<>>],
  \* rule 14, rules.py 108-113: ['no power', "won't turn on", 'dead']
  [is_list |-> TRUE, keywords |-> <<<<"n","o"," ","p","o","w","e","r">>, <<"w","o","n","'","t"," ","t","u","r","n"," ","o","n">>, <<"d","e","a","d">>>>,
   component |-> "PSU Upgrade", confidence |-> 9500,
   explanation |-> "Complete power failure usually indicates a dead power supply unit. Replace the PSU.",
   related_components |-> <<>>],
  \* rule 15, rules.py 116-121: ['slow', 'multitasking', 'chrome tabs', 'browser']
  [is_list |-> TRUE, keywords |-> <<<<"s","l","o","w">>, <<"m","u","l","t","i","t","a","s","k","i","n","g">>, <<"c","h","r","o","m","e"," ","t","a","b","s">>, <<"b","r","o","w","s","e","r">>>>,
   component |-> "RAM Upgrade", confidence |-> 9200,
   explanation |-> "Slow performance with multiple browser tabs typically indicates insufficient RAM. Upgrade RAM for better multitasking.",
   related_components |-> <<>>],
  \* rule 16, rules.py 122-127: ['tabs closing', 'out of memory', 'memory error']
  [is_list |-> TRUE, keywords |-> <<<<"t","a","b","s"," ","c","l","o","s","i","n","g">>, <<"o","u","t"," ","o","f"," ","m","e","m","o","r","y">>, <<"m","e","m","o","r","y"," ","e","r","r","o","r">>>>,
   component |-> "RAM Upgrade", confidence |-> 9300,
   explanation |-> "Browser tabs closing automatically or memory errors suggest RAM capacity issues. Add more RAM.",
   related_components |-> <<>>],
  \* rule 17, rules.py 130-135: ['slow boot', 'takes long to start', 'windows slow startup']
  [is_list |-> TRUE, keywords |-> <<<<"s","l","o","w"," ","b","o","o","t">>, <<"t","a","k","e","s"," ","l","o","n","g"," ","t","o"," ","s","t","a","r","t">>, <<"w","i","n","d","o","w","s"," ","s","l","o","w"," ","s","t","a","r","t","u","p">>>>,
   component |-> "SSD Upgrade", confidence |-> 9100,
   explanation |-> "Slow boot times are often caused by old HDD. Upgrade to SSD for significantly faster startup.",
   related_components |-> <<>>],
  \* rule 18, rules.py 136-141: ['loading slow', 'files slow', 'disk 100%']
  [is_list |-> TRUE, keywords |-> <<<<"l","o","a","d","i","n","g"," ","s","l","o","w">>, <<"f","i","l","e","s"," ","s","l","o","w">>, <<"d","i","s","k"," ","1","0","0","%">>>>,
   component |-> "SSD Upgrade", confidence |-> 9000,
   explanation |-> "Slow file loading and high disk usage indicate storage bottleneck. Upgrade to SSD for better performance.",
   related_components |-> <<>>],
  \* rule 19, rules.py 144-149: 'low fps'
  [is_list |-> FALSE, keywords |-> <<"l","o","w"," ","f","p","s">>,
   component |-> "GPU Upgrade", confidence |-> 9200,
   explanation |-> "Low FPS typically indicates insufficient GPU power. Upgrade your graphics card.",
   related_components |-> <<>>],
  \* rule 20, rules.py 150-155: 'gaming lag'
  [is_list |-> FALSE, keywords |-> <<"g","a","m","i","n","g"," ","l","a","g">>,
   component |-> "GPU Upgrade", confidence |-> 9200,
   explanation |-> "Gaming lag typically indicates insufficient GPU power. Upgrade your graphics card.",
   related_components |-> <<>>],
  \* rule 21, rules.py 156-161: 'frame drops'
  [is_list |-> FALSE, keywords |-> <<"f","r","a","m","e"," ","d","r","o","p","s">>,
   component |-> "GPU Upgrade", confidence |-> 9200,
   explanation |-> "Frame drops typically indicate insufficient GPU power. Upgrade your graphics card.",
   related_components |-> <<>>],
  \* rule 22, rules.py 162-167: ['graphics card', 'gpu', 'video card']
  [is_list |-> TRUE, keywords |-> <<<<"g","r","a","p","h","i","c","s"," ","c","a","r","d">>, <<"g","p","u">>, <<"v","i","d","e","o"," ","c","a","r","d">>>>,
   component |-> "GPU Upgrade", confidence |-> 8800,
   explanation |-> "Explicit mention of graphics card suggests GPU upgrade is needed.",
   related_components |-> <<>>],
  \* rule 23, rules.py 170-175: ['overheating', 'too hot', 'thermal']
  [is_list |-> TRUE, keywords |-> <<<<"o","v","e","r","h","e","a","t","i","n","g">>, <<"t","o","o"," ","h","o","t">>, <<"t","h","e","r","m","a","l">>>>,
   component |-> "CPU Cooler Upgrade", confidence |-> 9000,
   explanation |-> "Overheating issues require better cooling. Upgrade CPU cooler and ensure proper thermal paste application.",
   related_components |-> <<>>],
  \* rule 24, rules.py 176-181: ['thermal paste', 'cpu temperature', 'high temp']
  [is_list |-> TRUE, keywords |-> <<<<"t","h","e","r","m","a","l"," ","p","a","s","t","e">>, <<"c","p","u"," ","t","e","m","p","e","r","a","t","u","r","e">>, <<"h","i","g","h"," ","t","e","m","p">>>>,
   component |-> "Thermal Paste Reapply", confidence |-> 9300,
   explanation |-> "High CPU temperatures often indicate dried or improperly applied thermal paste. Reapply thermal paste.",
   related_components |-> <<>>],
  \* rule 25, rules.py 184-189: ['wifi disconnects', 'unstable wifi', 'internet drops']
  [is_list |-> TRUE, keywords |-> <<<<"w","i","f","i"," ","d","i","s","c","o","n","n","e","c","t","s">>, <<"u","n","s","t","a","b","l","e"," ","w","i","f","i">>, <<"i","n","t","e","r","n","e","t"," ","d","r","o","p","s">>>>,
   component |-> "WiFi Adapter Upgrade", confidence |-> 9100,
   explanation |-> "Unstable WiFi connections suggest adapter issues. Upgrade to a better WiFi adapter.",
   related_components |-> <<>>],
  \* rule 26, rules.py 190-195: ['no wifi', "can't connect", 'wifi not working']
  [is_list |-> TRUE, keywords |-> <<<<"n","o"," ","w","i","f","i">>, <<"c","a","n","'","t"," ","c","o","n","n","e","c","t">>, <<"w","i","f","i"," ","n","o","t"," ","w","o","r","k","i","n","g">>>>,
   component |-> "WiFi Adapter Upgrade", confidence |-> 8900,
   explanation |-> "Complete WiFi failure may indicate adapter malfunction. Replace or upgrade WiFi adapter.",
   related_components |-> <<>>],
  \* rule 27, rules.py 198-203: ['flickering', 'lines on screen', 'artifacts']
  [is_list |-> TRUE, keywords |-> <<<<"f","l","i","c","k","e","r","i","n","g">>, <<"l","i","n","e","s"," ","o","n"," ","s","c","r","e","e","n">>, <<"a","r","t","i","f","a","c","t","s">>>>,
   component |-> "Monitor or GPU Check", confidence |-> 9200,
   explanation |-> "Screen flickering or artifacts can indicate GPU issues or monitor problems. Check both components.",
   related_components |-> <<>>],
  \* rule 28, rules.py 204-209: ['dead pixels', 'screen damage', 'cracked screen']
  [is_list |-> TRUE, keywords |-> <<<<"d","e","a","d"," ","p","i","x","e","l","s">>, <<"s","c","r","e","e","n"," ","d","a","m","a","g","e">>, <<"c","r","a","c","k","e","d"," ","s","c","r","e","e","n">>>>,
   component |-> "Monitor Replacement", confidence |-> 9500,
   explanation |-> "Physical screen damage requires monitor replacement.",
   related_components |-> <<>>],
  \* rule 29, rules.py 212-218: ['slow boot', 'takes long to start', 'windows slow startup']
  [is_list |-> TRUE, keywords |-> <<<<"s","l","o","w"," ","b","o","o","t">>, <<"t","a","k","e","s"," ","l","o","n","g"," ","t","o"," ","s","t","a","r","t">>, <<"w","i","n","d","o","w","s"," ","s","l","o","w"," ","s","t","a","r","t","u","p">>>>,
   component |-> "SSD Upgrade", confidence |-> 9100,
   explanation |-> "Slow boot times are often caused by old HDD. Upgrade to SSD for significantly faster startup.",
   related_components |-> <<"RAM Upgrade">>],
  \* rule 30, rules.py 219-225: ['loading slow', 'files slow', 'disk 100%']
  [is_list |-> TRUE, keywords |-> <<<<"l","o","a","d","i","n","g"," ","s","l","o","w">>, <<"f","i","l","e","s"," ","s","l","o","w">>, <<"d","i","s","k"," ","1","0","0","%">>>>,
   component |-> "SSD Upgrade", confidence |-> 9000,
   explanation |-> "Slow file loading and high disk usage indicate storage bottleneck. Upgrade to SSD for better performance.",
   related_components |-> <<"RAM Upgrade">>],
  \* rule 31, rules.py 228-234: ['low fps', 'frame rate low', 'fps drops']
  [is_list |-> TRUE, keywords |-> <<<<"l","o","w"," ","f","p","s">>, <<"f","r","a","m","e"," ","r","a","t","e"," ","l","o","w">>, <<"f","p","s"," ","d","r","o","p","s">>>>,
   component |-> "GPU Upgrade", confidence |-> 9200,
   explanation |-> "Low FPS typically indicates insufficient GPU power. Upgrade your graphics card.",
   related_components |-> <<"CPU Upgrade", "RAM Upgrade">>],
  \* rule 32, rules.py 235-241: ['gaming lag', 'game stutter', 'game performance']
  [is_list |-> TRUE, keywords |-> <<<<"g","a","m","i","n","g"," ","l","a","g">>, <<"g","a","m","e"," ","s","t","u","t","t","e","r">>, <<"g","a","m","e"," ","p","e","r","f","o","r","m","a","n","c","e">>>>,
   component |-> "GPU Upgrade", confidence |-> 9200,
   explanation |-> "Gaming lag typically indicates insufficient GPU power. Upgrade your graphics card.",
   related_components |-> <<"CPU Upgrade">>],
  \* rule 33, rules.py 244-250: ['slow multitasking', 'many programs', 'multiple apps']
  [is_list |-> TRUE, keywords |-> <<<<"s","l","o","w"," ","m","u","l","t","i","t","a","s","k","i","n","g">>, <<"m","a","n","y"," ","p","r","o","g","r","a","m","s">>, <<"m","u","l","t","i","p","l","e"," ","a","p","p","s">>>>,
   component |-> "RAM Upgrade", confidence |-> 9200,
   explanation |-> "Slow performance with multiple programs typically indicates insufficient RAM. Upgrade RAM for better multitasking.",
   related_components |-> <<"SSD Upgrade", "CPU Upgrade">>],
  \* rule 34, rules.py 251-257: ['tabs closing', 'out of memory', 'memory error']
  [is_list |-> TRUE, keywords |-> <<<<"t","a","b","s"," ","c","l","o","s","i","n","g">>, <<"o","u","t"," ","o","f"," ","m","e","m","o","r","y">>, <<"m","e","m","o","r","y"," ","e","r","r","o","r">>>>,
   component |-> "RAM Upgrade", confidence |-> 9300,
   explanation |-> "Browser tabs closing automatically or memory errors suggest RAM capacity issues. Add more RAM.",
   related_components |-> <<>>],
  \* rule 35, rules.py 260-266: ['cpu overheating', 'processor too hot', 'cpu temperature']
  [is_list |-> TRUE, keywords |-> <<<<"c","p","u"," ","o","v","e","r","h","e","a","t","i","n","g">>, <<"p","r","o","c","e","s","s","o","r"," ","t","o","o"," ","h","o","t">>, <<"c","p","u"," ","t","e","m","p","e","r","a","t","u","r","e">>>>,
   component |-> "CPU Cooler Upgrade", confidence |-> 9000,
   explanation |-> "CPU overheating requires better cooling. Upgrade CPU cooler and ensure proper thermal paste application.",
   related_components |-> <<"Thermal Paste Reapply", "Case Fan Upgrade">>],
  \* rule 36, rules.py 267-273: ['gpu overheating', 'graphics card hot', 'gpu temperature']
  [is_list |-> TRUE, keywords |-> <<<<"g","p","u"," ","o","v","e","r","h","e","a","t","i","n","g">>, <<"g","r","a","p","h","i","c","s"," ","c","a","r","d"," ","h","o","t">>, <<"g","p","u"," ","t","e","m","p","e","r","a","t","u","r","e">>>>,
   component |-> "GPU Cooler Upgrade", confidence |-> 9000,
   explanation |-> "GPU overheating requires better cooling. Check GPU fans and consider upgrading GPU cooler.",
   related_components |-> <<"Case Fan Upgrade">>],
  \* rule 37, rules.py 276-282: ['wifi disconnects', 'unstable wifi', 'internet drops']
  [is_list |-> TRUE, keywords |-> <<<<"w","i","f","i"," ","d","i","s","c","o","n","n","e","c","t","s">>, <<"u","n","s","t","a","b","l","e"," ","w","i","f","i">>, <<"i","n","t","e","r","n","e","t"," ","d","r","o","p","s">>>>,
   component |-> "WiFi Adapter Upgrade", confidence |-> 9100,
   explanation |-> "Unstable WiFi connections suggest adapter issues. Upgrade to a better WiFi adapter.",
   related_components |-> <<"Router Upgrade">>],
  \* rule 38, rules.py 283-289: ['no wifi', "can't connect", 'wifi not working']
  [is_list |-> TRUE, keywords |-> <<<<"n","o"," ","w","i","f","i">>, <<"c","a","n","'","t"," ","c","o","n","n","e","c","t">>, <<"w","i","f","i"," ","n","o","t"," ","w","o","r","k","i","n","g">>>>,
   component |-> "WiFi Adapter Upgrade", confidence |-> 8900,
   explanation |-> "Complete WiFi failure may indicate adapter malfunction. Replace or upgrade WiFi adapter.",
   related_components |-> <<"Router Upgrade">>],
  \* rule 39, rules.py 292-298: ['laptop battery', 'battery not charging', 'battery dead']
  [is_list |-> TRUE, keywords |-> <<<<"l","a","p","t","o","p"," ","b","a","t","t","e","r","y">>, <<"b","a","t","t","e","r","y"," ","n","o","t"," ","c","h","a","r","g","i","n","g">>, <<"b","a","t","t","e","r","y"," ","d","e","a","d">>>>,
   component |-> "Laptop Battery Replacement", confidence |-> 9300,
   explanation |-> "Laptop battery issues require battery replacement. Check if battery is swollen or not holding charge.",
   related_components |-> <<>>],
  \* rule 40, rules.py 301-307: ['usb ports not enough', 'need more usb', 'usb devices not connecting']
  [is_list |-> TRUE, keywords |-> <<<<"u","s","b"," ","p","o","r","t","s"," ","n","o","t"," ","e","n","o","u","g","h">>, <<"n","e","e","d"," ","m","o","r","e"," ","u","s","b">>, <<"u","s","b"," ","d","e","v","i","c","e","s"," ","n","o","t"," ","c","o","n","n","e","c","t","i","n","g">>>>,
   component |-> "USB Hub", confidence |-> 8800,
   explanation |-> "Insufficient USB ports can be solved with a USB hub. Connect multiple devices simultaneously.",
   related_components |-> <<>>],
  \* rule 41, rules.py 310-316: 'lap camera'
  [is_list |-> FALSE, keywords |-> <<"l","a","p"," ","c","a","m","e","r","a">>,
   component |-> "Webcam Upgrade", confidence |-> 9500,
   explanation |-> "Laptop camera not working requires webcam upgrade or repair. Check if it's a built-in laptop camera or external webcam.",
   related_components |-> <<>>],
  \* rule 42, rules.py 317-323: 'laptop camera'
  [is_list |-> FALSE, keywords |-> <<"l","a","p","t","o","p"," ","c","a","m","e","r","a">>,
   component |-> "Webcam Upgrade", confidence |-> 9500,
   explanation |-> "Laptop camera not working requires webcam upgrade or repair. Check if it's a built-in laptop camera or external webcam.",
   related_components |-> <<>>],
  \* rule 43, rules.py 324-330: 'camera not working'
  [is_list |-> FALSE, keywords |-> <<"c","a","m","e","r","a"," ","n","o","t"," ","w","o","r","k","i","n","g">>,
   component |-> "Webcam Upgrade", confidence |-> 9500,
   explanation |-> "Camera not working requires webcam upgrade or repair. Check if it's a built-in laptop camera or external webcam.",
   related_components |-> <<>>],
  \* rule 44, rules.py 331-337: 'webcam not working'
  [is_list |-> FALSE, keywords |-> <<"w","e","b","c","a","m"," ","n","o","t"," ","w","o","r","k","i","n","g">>,
   component |-> "Webcam Upgrade", confidence |-> 9500,
   explanation |-> "Webcam not working requires webcam upgrade or repair. Check if it's a built-in laptop camera or external webcam.",
   related_components |-> <<>>],
  \* rule 45, rules.py 340-346: ['zoom', 'no sound']
  [is_list |-> TRUE, keywords |-> <<<<"z","o","o","m">>, <<"n","o"," ","s","o","u","n","d">>>>,
   component |-> "Audio Issue", confidence |-> 9300,
   explanation |-> "Zoom no sound is an audio issue. Check audio settings in Zoom and Windows.",
   related_components |-> <<>>],
  \* rule 46, rules.py 347-353: ['teams', 'no sound']
  [is_list |-> TRUE, keywords |-> <<<<"t","e","a","m","s">>, <<"n","o"," ","s","o","u","n","d">>>>,
   component |-> "Audio Issue", confidence |-> 9300,
   explanation |-> "Teams no sound is an audio issue. Check audio settings in Teams and Windows.",
   related_components |-> <<>>],
  \* rule 47, rules.py 354-360: ['zoom', 'no audio']
  [is_list |-> TRUE, keywords |-> <<<<"z","o","o","m">>, <<"n","o"," ","a","u","d","i","o">>>>,
   component |-> "Audio Issue", confidence |-> 9300,
   explanation |-> "Zoom no audio is an audio issue. Check audio settings and device selection.",
   related_components |-> <<>>],
  \* rule 48, rules.py 363-369: ['zoom', 'camera']
  [is_list |-> TRUE, keywords |-> <<<<"z","o","o","m">>, <<"c","a","m","e","r","a">>>>,
   component |-> "Webcam Upgrade", confidence |-> 9500,
   explanation |-> "Zoom camera issues are webcam problems. Check webcam settings in Zoom and Windows Privacy settings.",
   related_components |-> <<>>],
  \* rule 49, rules.py 370-376: ['zoom', 'video']
  [is_list |-> TRUE, keywords |-> <<<<"z","o","o","m">>, <<"v","i","d","e","o">>>>,
   component |-> "Webcam Upgrade", confidence |-> 9400,
   explanation |-> "Zoom video not working indicates webcam problem. Check webcam permissions and hardware.",
   related_components |-> <<>>],
  \* rule 50, rules.py 377-383: ['zoom', 'not showing']
  [is_list |-> TRUE, keywords |-> <<<<"z","o","o","m">>, <<"n","o","t"," ","s","h","o","w","i","n","g">>>>,
   component |-> "Webcam Upgrade", confidence |-> 9400,
   explanation |-> "Zoom not showing video is a webcam issue. Check webcam settings and permissions.",
   related_components |-> <<>>],
  \* rule 51, rules.py 384-390: ['zoom', "can't see"]
  [is_list |-> TRUE, keywords |-> <<<<"z","o","o","m">>, <<"c","a","n","'","t"," ","s","e","e">>>>,
   component |-> "Webcam Upgrade", confidence |-> 9400,
   explanation |-> "Can't see yourself in Zoom means webcam is not working. Check webcam settings and hardware.",
   related_components |-> <<>>],
  \* rule 52, rules.py 391-397: 'zoom application'
  [is_list |-> FALSE, keywords |-> <<"z","o","o","m"," ","a","p","p","l","i","c","a","t","i","o","n">>,
   component |-> "Webcam Upgrade", confidence |-> 9300,
   explanation |-> "Zoom application camera/video issues are webcam problems. Check webcam settings and permissions.",
   related_components |-> <<>>],
  \* rule 53, rules.py 398-404: 'zoom'
  [is_list |-> FALSE, keywords |-> <<"z","o","o","m">>,
   component |-> "Webcam Upgrade", confidence |-> 9000,
   explanation |-> "Zoom issues are usually webcam problems. Check webcam settings in Zoom and Windows Privacy settings.",
   related_components |-> <<>>],
  \* rule 54, rules.py 405-411: ['zoom', 'camera']
  [is_list |-> TRUE, keywords |-> <<<<"z","o","o","m">>, <<"c","a","m","e","r","a">>>>,
   component |-> "Webcam Upgrade", confidence |-> 9400,
   explanation |-> "Zoom camera not showing is a webcam issue. Check webcam settings in Zoom and Windows Privacy settings.",
   related_components |-> <<>>],
  \* rule 55, rules.py 412-418: ['zoom', 'video']
  [is_list |-> TRUE, keywords |-> <<<<"z","o","o","m">>, <<"v","i","d","e","o">>>>,
   component |-> "Webcam Upgrade", confidence |-> 9400,
   explanation |-> "Zoom video not working indicates webcam problem. Check webcam permissions and hardware.",
   related_components |-> <<>>],
  \* rule 56, rules.py 419-425: ['zoom', 'not showing']
  [is_list |-> TRUE, keywords |-> <<<<"z","o","o","m">>, <<"n","o","t"," ","s","h","o","w","i","n","g">>>>,
   component |-> "Webcam Upgrade", confidence |-> 9400,
   explanation |-> "Zoom not showing video is a webcam issue. Check webcam settings and permissions.",
   related_components |-> <<>>],
  \* rule 57, rules.py 426-432: ['zoom', "can't see"]
  [is_list |-> TRUE, keywords |-> <<<<"z","o","o","m">>, <<"c","a","n","'","t"," ","s","e","e">>>>,
   component |-> "Webcam Upgrade", confidence |-> 9400,
   explanation |-> "Can't see yourself in Zoom means webcam is not working. Check webcam settings and hardware.",
   related_components |-> <<>>],
  \* rule 58, rules.py 433-439: 'zoom application'
  [is_list |-> FALSE, keywords |-> <<"z","o","o","m"," ","a","p","p","l","i","c","a","t","i","o","n">>,
   component |-> "Webcam Upgrade", confidence |-> 9300,
   explanation |-> "Zoom application camera/video issues are webcam problems. Check webcam settings and permissions.",
   related_components |-> <<>>],
  \* rule 59, rules.py 440-446: 'teams'
  [is_list |-> FALSE, keywords |-> <<"t","e","a","m","s">>,
   component |-> "Webcam Upgrade", confidence |-> 9200,
   explanation |-> "Teams camera/video issues are webcam problems. Check webcam settings in Teams and Windows.",
   related_components |-> <<>>],
  \* rule 60, rules.py 447-453: ['teams', 'camera']
  [is_list |-> TRUE, keywords |-> <<<<"t","e","a","m","s">>, <<"c","a","m","e","r","a">>>>,
   component |-> "Webcam Upgrade", confidence |-> 9400,
   explanation |-> "Teams camera not working is a webcam issue. Check webcam settings in Teams and Windows.",
   related_components |-> <<>>],
  \* rule 61, rules.py 454-460: 'skype'
  [is_list |-> FALSE, keywords |-> <<"s","k","y","p","e">>,
   component |-> "Webcam Upgrade", confidence |-> 9200,
   explanation |-> "Skype camera/video issues are webcam problems. Check webcam permissions and hardware.",
   related_components |-> <<>>],
  \* rule 62, rules.py 461-467: ['skype', 'camera']
  [is_list |-> TRUE, keywords |-> <<<<"s","k","y","p","e">>, <<"c","a","m","e","r","a">>>>,
   component |-> "Webcam Upgrade", confidence |-> 9400,
   explanation |-> "Skype camera not working indicates webcam problem. Check webcam permissions and hardware.",
   related_components |-> <<>>],
  \* rule 63, rules.py 468-474: 'video call'
  [is_list |-> FALSE, keywords |-> <<"v","i","d","e","o"," ","c","a","l","l">>,
   component |-> "Webcam Upgrade", confidence |-> 9100,
   explanation |-> "Video call issues are usually webcam problems. Check webcam settings and permissions.",
   related_components |-> <<>>],
  \* rule 64, rules.py 475-481: ['video call', 'camera']
  [is_list |-> TRUE, keywords |-> <<<<"v","i","d","e","o"," ","c","a","l","l">>, <<"c","a","m","e","r","a">>>>,
   component |-> "Webcam Upgrade", confidence |-> 9300,
   explanation |-> "Video call camera not working is a webcam issue. Check webcam settings and permissions.",
   related_components |-> <<>>],
  \* rule 65, rules.py 482-488: ['video call', 'no video']
  [is_list |-> TRUE, keywords |-> <<<<"v","i","d","e","o"," ","c","a","l","l">>, <<"n","o"," ","v","i","d","e","o">>>>,
   component |-> "Webcam Upgrade", confidence |-> 9300,
   explanation |-> "No video in video calls indicates webcam problem. Check webcam hardware and settings.",
   related_components |-> <<>>],
  \* rule 66, rules.py 489-495: 'meeting'
  [is_list |-> FALSE, keywords |-> <<"m","e","e","t","i","n","g">>,
   component |-> "Webcam Upgrade", confidence |-> 9000,
   explanation |-> "Meeting camera issues are webcam problems. Check webcam permissions and hardware.",
   related_components |-> <<>>],
  \* rule 67, rules.py 496-502: ['meeting', 'camera']
  [is_list |-> TRUE, keywords |-> <<<<"m","e","e","t","i","n","g">>, <<"c","a","m","e","r","a">>>>,
   component |-> "Webcam Upgrade", confidence |-> 9300,
   explanation |-> "Camera not showing in meetings is a webcam issue. Check webcam permissions and hardware.",
   related_components |-> <<>>],
  \* rule 68, rules.py 506-512: ['zoom', 'mic']
  [is_list |-> TRUE, keywords |-> <<<<"z","o","o","m">>, <<"m","i","c">>>>,
   component |-> "Microphone Upgrade", confidence |-> 9200,
   explanation |-> "Zoom microphone issues may require microphone upgrade. Check mic settings and permissions.",
   related_components |-> <<>>],
  \* rule 69, rules.py 513-519: ['teams', 'mic']
  [is_list |-> TRUE, keywords |-> <<<<"t","e","a","m","s">>, <<"m","i","c">>>>,
   component |-> "Microphone Upgrade", confidence |-> 9200,
   explanation |-> "Teams microphone issues may require microphone upgrade. Check mic settings and permissions.",
   related_components |-> <<>>],
  \* rule 70, rules.py 520-526: ['discord', 'mic']
  [is_list |-> TRUE, keywords |-> <<<<"d","i","s","c","o","r","d">>, <<"m","i","c">>>>,
   component |-> "Microphone Upgrade", confidence |-> 9200,
   explanation |-> "Discord microphone issues may require microphone upgrade. Check mic settings and permissions.",
   related_components |-> <<>>],
  \* rule 71, rules.py 527-533: ["can't hear me"]
  [is_list |-> TRUE, keywords |-> <<<<"c","a","n","'","t"," ","h","e","a","r"," ","m","e">>>>,
   component |-> "Microphone Upgrade", confidence |-> 9100,
   explanation |-> "People can't hear you indicates microphone problem. Check mic settings and hardware.",
   related_components |-> <<>>],
  \* rule 72, rules.py 536-542: ['tabs closing']
  [is_list |-> TRUE, keywords |-> <<<<"t","a","b","s"," ","c","l","o","s","i","n","g">>>>,
   component |-> "RAM Upgrade", confidence |-> 9200,
   explanation |-> "Browser tabs closing automatically indicates insufficient RAM. Upgrade RAM for better multitasking.",
   related_components |-> <<>>],
  \* rule 73, rules.py 543-549: ['chrome tabs']
  [is_list |-> TRUE, keywords |-> <<<<"c","h","r","o","m","e"," ","t","a","b","s">>>>,
   component |-> "RAM Upgrade", confidence |-> 9100,
   explanation |-> "Chrome tabs issues often indicate RAM problems. Check RAM usage and consider upgrade.",
   related_components |-> <<>>],
  \* rule 74, rules.py 550-556: ['photoshop', 'slow']
  [is_list |-> TRUE, keywords |-> <<<<"p","h","o","t","o","s","h","o","p">>, <<"s","l","o","w">>>>,
   component |-> "RAM Upgrade", confidence |-> 9000,
   explanation |-> "Photoshop slow performance typically needs more RAM. Check RAM usage during Photoshop.",
   related_components |-> <<>>],
  \* rule 75, rules.py 557-563: ['premiere', 'slow']
  [is_list |-> TRUE, keywords |-> <<<<"p","r","e","m","i","e","r","e">>, <<"s","l","o","w">>>>,
   component |-> "RAM Upgrade", confidence |-> 9000,
   explanation |-> "Premiere Pro slow performance typically needs more RAM. Video editing requires lots of RAM.",
   related_components |-> <<>>],
  \* rule 76, rules.py 566-572: ['games', 'long to load']
  [is_list |-> TRUE, keywords |-> <<<<"g","a","m","e","s">>, <<"l","o","n","g"," ","t","o"," ","l","o","a","d">>>>,
   component |-> "SSD Upgrade", confidence |-> 9100,
   explanation |-> "Games taking long to load indicates slow storage. Upgrade to SSD for faster loading times.",
   related_components |-> <<>>],
  \* rule 77, rules.py 573-579: ['games', 'slow to load']
  [is_list |-> TRUE, keywords |-> <<<<"g","a","m","e","s">>, <<"s","l","o","w"," ","t","o"," ","l","o","a","d">>>>,
   component |-> "SSD Upgrade", confidence |-> 9100,
   explanation |-> "Games slow to load indicates storage bottleneck. SSD upgrade significantly improves loading times.",
   related_components |-> <<>>],
  \* rule 78, rules.py 580-586: ['loading', 'slow']
  [is_list |-> TRUE, keywords |-> <<<<"l","o","a","d","i","n","g">>, <<"s","l","o","w">>>>,
   component |-> "SSD Upgrade", confidence |-> 9000,
   explanation |-> "Slow loading times indicate storage bottleneck. Upgrade to SSD for better performance.",
   related_components |-> <<>>],
  \* rule 79, rules.py 589-595: ['netflix', 'buffering']
  [is_list |-> TRUE, keywords |-> <<<<"n","e","t","f","l","i","x">>, <<"b","u","f","f","e","r","i","n","g">>>>,
   component |-> "WiFi Adapter Upgrade", confidence |-> 9200,
   explanation |-> "Netflix buffering indicates network issue. Check WiFi adapter and connection speed.",
   related_components |-> <<>>],
  \* rule 80, rules.py 596-602: ['youtube', 'buffering']
  [is_list |-> TRUE, keywords |-> <<<<"y","o","u","t","u","b","e">>, <<"b","u","f","f","e","r","i","n","g">>>>,
   component |-> "WiFi Adapter Upgrade", confidence |-> 9200,
   explanation |-> "YouTube buffering indicates network issue. Check WiFi adapter and connection speed.",
   related_components |-> <<>>],
  \* rule 81, rules.py 603-609: ['streaming', 'buffering']
  [is_list |-> TRUE, keywords |-> <<<<"s","t","r","e","a","m","i","n","g">>, <<"b","u","f","f","e","r","i","n","g">>>>,
   component |-> "WiFi Adapter Upgrade", confidence |-> 9100,
   explanation |-> "Streaming buffering indicates network issue. Upgrade WiFi adapter for better connection.",
   related_components |-> <<>>],
  \* rule 82, rules.py 610-616: 'camera not detected'
  [is_list |-> FALSE, keywords |-> <<"c","a","m","e","r","a"," ","n","o","t"," ","d","e","t","e","c","t","e","d">>,
   component |-> "Webcam Upgrade", confidence |-> 9400,
   explanation |-> "Camera not being detected suggests hardware or driver issue. May need webcam upgrade or driver update.",
   related_components |-> <<>>],
  \* rule 83, rules.py 617-623: 'webcam not detected'
  [is_list |-> FALSE, keywords |-> <<"w","e","b","c","a","m"," ","n","o","t"," ","d","e","t","e","c","t","e","d">>,
   component |-> "Webcam Upgrade", confidence |-> 9400,
   explanation |-> "Webcam not being detected suggests hardware or driver issue. May need webcam upgrade or driver update.",
   related_components |-> <<>>],
  \* rule 84, rules.py 624-630: 'camera not showing'
  [is_list |-> FALSE, keywords |-> <<"c","a","m","e","r","a"," ","n","o","t"," ","s","h","o","w","i","n","g">>,
   component |-> "Webcam Upgrade", confidence |-> 9400,
   explanation |-> "Camera not showing suggests hardware or driver issue. May need webcam upgrade or driver update.",
   related_components |-> <<>>],
  \* rule 85, rules.py 631-637: 'camera error'
  [is_list |-> FALSE, keywords |-> <<"c","a","m","e","r","a"," ","e","r","r","o","r">>,
   component |-> "Webcam Upgrade", confidence |-> 9300,
   explanation |-> "Camera errors typically indicate hardware failure or driver issues. Consider webcam upgrade.",
   related_components |-> <<>>],
  \* rule 86, rules.py 638-644: 'webcam error'
  [is_list |-> FALSE, keywords |-> <<"w","e","b","c","a","m"," ","e","r","r","o","r">>,
   component |-> "Webcam Upgrade", confidence |-> 9300,
   explanation |-> "Webcam errors typically indicate hardware failure or driver issues. Consider webcam upgrade.",
   related_components |-> <<>>],
  \* rule 87, rules.py 645-651: 'camera problem'
  [is_list |-> FALSE, keywords |-> <<"c","a","m","e","r","a"," ","p","r","o","b","l","e","m">>,
   component |-> "Webcam Upgrade", confidence |-> 9300,
   explanation |-> "Camera problems typically indicate hardware failure or driver issues. Consider webcam upgrade.",
   related_components |-> <<>>],
  \* rule 88, rules.py 652-658: 'webcam problem'
  [is_list |-> FALSE, keywords |-> <<"w","e","b","c","a","m"," ","p","r","o","b","l","e","m">>,
   component |-> "Webcam Upgrade", confidence |-> 9300,
   explanation |-> "Webcam problems typically indicate hardware failure or driver issues. Consider webcam upgrade.",
   related_components |-> <<>>],
  \* rule 89, rules.py 659-665: 'camera not responding'
  [is_list |-> FALSE, keywords |-> <<"c","a","m","e","r","a"," ","n","o","t"," ","r","e","s","p","o","n","d","i","n","g">>,
   component |-> "Webcam Upgrade", confidence |-> 9500,
   explanation |-> "Camera not responding usually means hardware failure. Upgrade to a new webcam.",
   related_components |-> <<>>],
  \* rule 90, rules.py 666-672: 'webcam not responding'
  [is_list |-> FALSE, keywords |-> <<"w","e","b","c","a","m"," ","n","o","t"," ","r","e","s","p","o","n","d","i","n","g">>,
   component |-> "Webcam Upgrade", confidence |-> 9500,
   explanation |-> "Webcam not responding usually means hardware failure. Upgrade to a new webcam.",
   related_components |-> <<>>],
  \* rule 91, rules.py 673-679: 'camera broken'
  [is_list |-> FALSE, keywords |-> <<"c","a","m","e","r","a"," ","b","r","o","k","e","n">>,
   component |-> "Webcam Upgrade", confidence |-> 9500,
   explanation |-> "Broken camera requires webcam upgrade. Install a new webcam.",
   related_components |-> <<>>],
  \* rule 92, rules.py 680-686: 'no camera'
  [is_list |-> FALSE, keywords |-> <<"n","o"," ","c","a","m","e","r","a">>,
   component |-> "Webcam Upgrade", confidence |-> 9200,
   explanation |-> "Missing camera requires webcam upgrade. Install an external webcam if built-in camera is not available.",
   related_components |-> <<>>],
  \* rule 93, rules.py 687-693: 'no webcam'
  [is_list |-> FALSE, keywords |-> <<"n","o"," ","w","e","b","c","a","m">>,
   component |-> "Webcam Upgrade", confidence |-> 9200,
   explanation |-> "Missing webcam requires webcam upgrade. Install an external webcam if built-in camera is not available.",
   related_components |-> <<>>],
  \* rule 94, rules.py 694-700: 'camera missing'
  [is_list |-> FALSE, keywords |-> <<"c","a","m","e","r","a"," ","m","i","s","s","i","n","g">>,
   component |-> "Webcam Upgrade", confidence |-> 9200,
   explanation |-> "Missing camera requires webcam upgrade. Install an external webcam if built-in camera is not available.",
   related_components |-> <<>>]
>>

\* ------------------------------------------------------------------------
\* rules.py: match_rule
\* ------------------------------------------------------------------------
\* the condition of one rule of RULES: a list of keywords needs all of them,
\* a single keyword needs that one
rule_matches(rule, text_lower) ==
  IF rule.is_list
  THEN \A k \in 1..Len(rule.keywords) : Contains(text_lower, lower(rule.keywords[k]))
  ELSE Contains(text_lower, lower(rule.keywords))

\* the value of `return None`
NoRule ==
  [matched |-> FALSE, component |-> None, confidence |-> 0,
   explanation |-> None, related |-> <<>>]

\* a mutation of match_rule: a later matching rule overrides an earlier one
match_rule_last_wins(txt) ==
  LET text_lower == strip(lower(txt))
      hits == {i \in 1..Len(RULES) : rule_matches(RULES[i], text_lower)}
  IN IF hits = {} THEN NoRule
     ELSE LET i == CHOOSE h \in hits : \A g \in hits : g <= h
          IN [matched |-> TRUE, component |-> RULES[i].component,
              confidence |-> RULES[i].confidence,
              explanation |-> RULES[i].explanation,
              related |-> RULES[i].related_components]

\* match_rule(text): the first rule, in the order of RULES, whose condition
\* holds of text.lower().strip()
match_rule(txt) ==
  LET text_lower == strip(lower(txt))
      walk[i \in 1..(Len(RULES) + 1)] ==
        IF i > Len(RULES) THEN NoRule
        ELSE IF rule_matches(RULES[i], text_lower)
             THEN [matched |-> TRUE, component |-> RULES[i].component,
                   confidence |-> RULES[i].confidence,
                   explanation |-> RULES[i].explanation,
                   related |-> RULES[i].related_components]
             ELSE walk[i + 1]
  IN walk[1]

\* ------------------------------------------------------------------------
\* list helpers: slices, list.sort, duplicate removal
\* ------------------------------------------------------------------------
\* sq[:n]
Take(sq, n) == SubSeq(sq, 1, IF Len(sq) < n THEN Len(sq) ELSE n)

\* the elements of sq at the positions in idx, in their order in sq
AtPositions(sq, idx) ==
  list([k \in 1..Cardinality(idx) |->
          sq[CHOOSE i \in idx : Cardinality({j \in idx : j < i}) = k - 1]])

\* list.sort(key=confidence, reverse=True): stable, so that equal
\* confidences keep their order
sort_by_confidence_desc(sq) ==
  LET rank(i) == Cardinality({j \in 1..Len(sq) :
                    \/ sq[j].confidence > sq[i].confidence
                    \/ sq[j].confidence = sq[i].confidence /\ j < i})
  IN list([k \in 1..Len(sq) |-> sq[CHOOSE i \in 1..Len(sq) : rank(i) = k - 1]])

\* the `seen` loops: the first entry of each label is kept
unique_by_label(sq) ==
  AtPositions(sq, {i \in 1..Len(sq) : \A j \in 1..(i - 1) : sq[j].label # sq[i].label})

RECURSIVE Flatten(_)
\* the concatenation of a sequence of sequences
Flatten(sqs) == IF sqs = <<>> THEN <<>> ELSE Head(sqs) \o Flatten(Tail(sqs))

\* ------------------------------------------------------------------------
\* multi_component_mapping.py
\* ------------------------------------------------------------------------
\* multi_component_mapping.py 11-54
PROBLEM_TO_COMPONENTS == <<
  [problem |-> <<"s","l","o","w">>, components |-> <<"RAM Upgrade", "SSD Upgrade", "CPU Upgrade">>],
  [problem |-> <<"s","l","u","g","g","i","s","h">>, components |-> <<"RAM Upgrade", "SSD Upgrade">>],
  [problem |-> <<"l","a","g">>, components |-> <<"RAM Upgrade", "GPU Upgrade">>],
  [problem |-> <<"f","r","e","e","z","e">>, components |-> <<"RAM Upgrade", "SSD Upgrade">>],
  [problem |-> <<"h","a","n","g","i","n","g">>, components |-> <<"RAM Upgrade", "SSD Upgrade">>],
  [problem |-> <<"s","l","o","w"," ","b","o","o","t">>, components |-> <<"SSD Upgrade", "RAM Upgrade">>],
  [problem |-> <<"t","a","k","e","s"," ","l","o","n","g"," ","t","o"," ","s","t","a","r","t">>, components |-> <<"SSD Upgrade">>],
  [problem |-> <<"b","o","o","t"," ","t","i","m","e">>, components |-> <<"SSD Upgrade">>],
  [problem |-> <<"l","o","w"," ","f","p","s">>, components |-> <<"GPU Upgrade", "RAM Upgrade">>],
  [problem |-> <<"g","a","m","i","n","g"," ","l","a","g">>, components |-> <<"GPU Upgrade", "RAM Upgrade">>],
  [problem |-> <<"f","r","a","m","e"," ","d","r","o","p","s">>, components |-> <<"GPU Upgrade">>],
  [problem |-> <<"o","v","e","r","h","e","a","t">>, components |-> <<"CPU Cooler Upgrade", "Case Fan Upgrade", "Thermal Paste Reapply">>],
  [problem |-> <<"t","o","o"," ","h","o","t">>, components |-> <<"CPU Cooler Upgrade", "Case Fan Upgrade">>],
  [problem |-> <<"h","e","a","t","i","n","g">>, components |-> <<"CPU Cooler Upgrade", "Thermal Paste Reapply">>],
  [problem |-> <<"s","h","u","t","s"," ","d","o","w","n">>, components |-> <<"PSU Upgrade", "CPU Cooler Upgrade">>],
  [problem |-> <<"r","a","n","d","o","m"," ","s","h","u","t","d","o","w","n">>, components |-> <<"PSU Upgrade">>],
  [problem |-> <<"n","o"," ","p","o","w","e","r">>, components |-> <<"PSU Upgrade", "Power Cable Replacement">>],
  [problem |-> <<"w","o","n","t"," ","s","t","a","r","t">>, components |-> <<"PSU Upgrade", "Power Cable Replacement">>],
  [problem |-> <<"n","o"," ","d","i","s","p","l","a","y">>, components |-> <<"Monitor or GPU Check", "Display Cable Replacement">>],
  [problem |-> <<"b","l","a","c","k"," ","s","c","r","e","e","n">>, components |-> <<"Monitor or GPU Check", "GPU Upgrade">>],
  [problem |-> <<"n","o"," ","s","i","g","n","a","l">>, components |-> <<"Monitor or GPU Check", "Display Cable Replacement">>],
  [problem |-> <<"n","o"," ","i","n","t","e","r","n","e","t">>, components |-> <<"WiFi Adapter Upgrade", "Router Upgrade">>],
  [problem |-> <<"w","i","f","i"," ","d","i","s","c","o","n","n","e","c","t","s">>, components |-> <<"WiFi Adapter Upgrade">>],
  [problem |-> <<"s","l","o","w"," ","i","n","t","e","r","n","e","t">>, components |-> <<"WiFi Adapter Upgrade", "Router Upgrade">>],
  [problem |-> <<"f","u","l","l">>, components |-> <<"SSD Upgrade", "HDD Upgrade">>],
  [problem |-> <<"n","o"," ","s","p","a","c","e">>, components |-> <<"SSD Upgrade", "HDD Upgrade">>],
  [problem |-> <<"s","t","o","r","a","g","e">>, components |-> <<"SSD Upgrade", "HDD Upgrade">>]
>>


\* get_related_components(text, primary_component)
get_related_components(txt, primary_component) ==
  LET text_lower == lower(txt)
      of_problem(p) ==
        IF Contains(text_lower, p.problem)
        THEN LET comps == SelectSeq(p.components, LAMBDA c : c # primary_component)
             IN list([k \in 1..Len(comps) |-> [label |-> comps[k], confidence |-> 7000]])
        ELSE <<>>
      related == Flatten(list([k \in 1..Len(PROBLEM_TO_COMPONENTS) |->
                                 of_problem(PROBLEM_TO_COMPONENTS[k])]))
  IN Take(sort_by_confidence_desc(unique_by_label(related)), 5)

\* component_to_category.get(component, "Other")
category_of(component_to_category, component) ==
  IF component \in DOMAIN component_to_category
  THEN component_to_category[component]
  ELSE "Other"

\* group_by_category(components, component_to_category): the dict as the
\* sequence of its items, in insertion order
group_by_category(components, component_to_category) ==
  LET cat(i) == category_of(component_to_category, components[i].label)
      firsts == {i \in 1..Len(components) : \A j \in 1..(i - 1) : cat(j) # cat(i)}
      order == AtPositions(list([i \in 1..Len(components) |-> i]), firsts)
  IN list([k \in 1..Len(order) |->
             [category |-> cat(order[k]),
              components |-> sort_by_confidence_desc(
                 AtPositions(components, {i \in 1..Len(components) : cat(i) = cat(order[k])}))]])

\* ------------------------------------------------------------------------
\* app.py: the rule matchers of the error-type cascade
\* ------------------------------------------------------------------------
\* app.py 2465-2590
rule_based_error_type(txt) ==
  IF (~(txt # <<>>) \/ ~(strip(txt) # <<>>))
  THEN
    [label |-> None, confidence |-> 0]
  ELSE
  LET t == strip(lower(txt))
  IN
  IF re_search(<<[parts |-> <<<<"r","a","n","d","o","m"," ","s","h","u","t","d","o","w","n">>>>, word |-> FALSE],
        [parts |-> <<<<"s","h","u","t","s"," ","d","o","w","n">>>>, word |-> FALSE],
        [parts |-> <<<<"t","u","r","n","s"," ","o","f","f">>>>, word |-> FALSE],
        [parts |-> <<<<"n","o"," ","p","o","w","e","r">>>>, word |-> FALSE],
        [parts |-> <<<<"w","o","n","'","t"," ","t","u","r","n"," ","o","n">>>>, word |-> FALSE],
        [parts |-> <<<<"w","o","n","t"," ","t","u","r","n"," ","o","n">>>>, word |-> FALSE],
        [parts |-> <<<<"s","u","d","d","e","n"," ","r","e","s","t","a","r","t">>>>, word |-> FALSE],
        [parts |-> <<<<"r","e","s","t","a","r","t","s"," ","b","y"," ","i","t","s","e","l","f">>>>, word |-> FALSE],
        [parts |-> <<<<"p","o","w","e","r"," ","c","u","t">>>>, word |-> FALSE],
        [parts |-> <<<<"p","s","u">>>>, word |-> TRUE],
        [parts |-> <<<<"p","o","w","e","r"," ","s","u","p","p","l","y">>>>, word |-> FALSE],
        [parts |-> <<<<"s","m","e","l","l","s">>, <<"b","u","r","n","i","n","g">>>>, word |-> FALSE],
        [parts |-> <<<<"b","u","r","n","i","n","g">>, <<"s","m","e","l","l">>>>, word |-> FALSE],
        [parts |-> <<<<"v","i","b","r","a","t","e","s">>>>, word |-> FALSE],
        [parts |-> <<<<"b","u","z","z","i","n","g">>>>, word |-> FALSE],
        [parts |-> <<<<"w","h","i","s","t","l","i","n","g">>>>, word |-> FALSE],
        [parts |-> <<<<"r","a","n","d","o","m","l","y">>, <<"l","o","s","e","s">>, <<"p","o","w","e","r">>>>, word |-> FALSE],
        [parts |-> <<<<"l","o","s","e","s">>, <<"p","o","w","e","r">>>>, word |-> FALSE],
        [parts |-> <<<<"s","h","u","t","s"," ","d","o","w","n">>, <<"r","a","n","d","o","m","l","y">>>>, word |-> FALSE],
        [parts |-> <<<<"r","e","s","t","a","r","t">>, <<"w","i","t","h","o","u","t">>, <<"w","a","r","n","i","n","g">>>>, word |-> FALSE],
        [parts |-> <<<<"r","e","s","t","a","r","t","s">>, <<"w","h","e","n">>>>, word |-> FALSE],
        [parts |-> <<<<"s","h","u","t","s"," ","d","o","w","n">>, <<"w","h","e","n">>>>, word |-> FALSE],
        [parts |-> <<<<"p","l","u","g">>, <<"i","n">>, <<"s","h","u","t","s">>>>, word |-> FALSE],
        [parts |-> <<<<"b","a","t","t","e","r","y">>, <<"d","r","a","i","n">>>>, word |-> FALSE],
        [parts |-> <<<<"s","h","u","t","s"," ","d","o","w","n">>, <<"b","a","t","t","e","r","y">>>>, word |-> FALSE],
        [parts |-> <<<<"d","o","e","s","n","'","t"," ","b","o","o","t">>, <<"b","a","t","t","e","r","y">>>>, word |-> FALSE],
        [parts |-> <<<<"r","e","m","o","v","e">>, <<"b","a","t","t","e","r","y">>>>, word |-> FALSE],
        [parts |-> <<<<"r","e","c","o","n","n","e","c","t">>, <<"c","a","b","l","e","s">>>>, word |-> FALSE]>>, t)
  THEN
    [label |-> "PSU / Power Issue", confidence |-> 9500]
  ELSE
  IF (re_search(<<[parts |-> <<<<"o","v","e","r","h","e","a","t">>>>, word |-> FALSE],
        [parts |-> <<<<"t","o","o"," ","h","o","t">>>>, word |-> FALSE],
        [parts |-> <<<<"h","i","g","h"," ","t","e","m","p">>>>, word |-> FALSE],
        [parts |-> <<<<"t","e","m","p","e","r","a","t","u","r","e">>>>, word |-> FALSE],
        [parts |-> <<<<"t","h","e","r","m","a","l">>>>, word |-> FALSE]>>, t) /\ re_search(<<[parts |-> <<<<"g","a","m","e">>>>, word |-> FALSE],
        [parts |-> <<<<"g","a","m","i","n","g">>>>, word |-> FALSE],
        [parts |-> <<<<"f","p","s">>>>, word |-> FALSE],
        [parts |-> <<<<"v","a","l","o","r","a","n","t">>>>, word |-> FALSE],
        [parts |-> <<<<"c","s","g","o">>>>, word |-> FALSE],
        [parts |-> <<<<"p","u","b","g">>>>, word |-> FALSE],
        [parts |-> <<<<"f","o","r","t","n","i","t","e">>>>, word |-> FALSE],
        [parts |-> <<<<"d","o","t","a">>>>, word |-> FALSE],
        [parts |-> <<<<"g","t","a">>>>, word |-> FALSE]>>, t))
  THEN
    [label |-> "GPU Overheat", confidence |-> 9000]
  ELSE
  IF re_search(<<[parts |-> <<<<"o","v","e","r","h","e","a","t">>>>, word |-> FALSE],
        [parts |-> <<<<"t","o","o"," ","h","o","t">>>>, word |-> FALSE],
        [parts |-> <<<<"h","i","g","h"," ","t","e","m","p">>>>, word |-> FALSE],
        [parts |-> <<<<"t","e","m","p","e","r","a","t","u","r","e">>>>, word |-> FALSE],
        [parts |-> <<<<"t","h","e","r","m","a","l">>>>, word |-> FALSE],
        [parts |-> <<<<"f","a","n">>, <<"l","o","u","d">>>>, word |-> FALSE],
        [parts |-> <<<<"f","a","n">>, <<"n","o","i","s","e">>>>, word |-> FALSE],
        [parts |-> <<<<"f","a","n">>, <<"s","p","i","n">>>>, word |-> FALSE],
        [parts |-> <<<<"f","a","n","s">>, <<"s","p","i","n">>>>, word |-> FALSE],
        [parts |-> <<<<"f","a","n">>, <<"n","e","v","e","r">>, <<"s","p","i","n">>>>, word |-> FALSE],
        [parts |-> <<<<"f","a","n">>, <<"n","o","t">>, <<"s","p","i","n">>>>, word |-> FALSE],
        [parts |-> <<<<"g","e","t","s"," ","h","o","t">>>>, word |-> FALSE],
        [parts |-> <<<<"s","m","e","l","l","s">>, <<"b","u","r","n","i","n","g">>>>, word |-> FALSE],
        [parts |-> <<<<"b","u","r","n","i","n","g">>, <<"s","m","e","l","l">>>>, word |-> FALSE],
        [parts |-> <<<<"v","i","b","r","a","t","e","s">>>>, word |-> FALSE],
        [parts |-> <<<<"b","u","z","z","i","n","g">>>>, word |-> FALSE],
        [parts |-> <<<<"w","h","i","s","t","l","i","n","g">>>>, word |-> FALSE],
        [parts |-> <<<<"p","o","p","p","i","n","g">>, <<"n","o","i","s","e">>, <<"s","p","e","a","k","e","r","s">>>>, word |-> FALSE],
        [parts |-> <<<<"h","i","n","g","e">>, <<"t","i","g","h","t">>, <<"n","o","i","s","e">>>>, word |-> FALSE]>>, t)
  THEN
    IF (Contains(t, <<"s","t","a","t","i","c"," ","n","o","i","s","e">>) \/ Contains(t, <<"m","o","n","i","t","o","r",".","*","s","t","a","t","i","c">>))
    THEN
      [label |-> "Monitor or GPU Check", confidence |-> 8500]
    ELSE
    IF (Contains(t, <<"g","p","u",".","*","f","a","n">>) \/ Contains(t, <<"f","a","n","s",".","*","d","o"," ","n","o","t",".","*","s","p","i","n">>) \/ Contains(t, <<"g","p","u"," ","f","a","n","s">>))
    THEN
      [label |-> "GPU Upgrade", confidence |-> 8500]
    ELSE
    IF Contains(t, <<"h","i","n","g","e">>)
    THEN
      [label |-> "General Repair", confidence |-> 7000]
    ELSE
    IF (Contains(t, <<"p","o","p","p","i","n","g",".","*","s","p","e","a","k","e","r","s">>) \/ Contains(t, <<"s","p","e","a","k","e","r","s",".","*","p","o","p","p","i","n","g">>))
    THEN
      [label |-> "General Repair", confidence |-> 7000]
    ELSE
    [label |-> "CPU Overheat", confidence |-> 8000]
  ELSE
  IF re_search(<<[parts |-> <<<<"b","s","o","d">>>>, word |-> FALSE],
        [parts |-> <<<<"b","l","u","e"," ","s","c","r","e","e","n">>>>, word |-> FALSE],
        [parts |-> <<<<"s","t","o","p"," ","c","o","d","e">>>>, word |-> FALSE],
        [parts |-> <<<<"0","x","0","0","0","0","0","0">>>>, word |-> FALSE],
        [parts |-> <<<<"s","a","d"," ","f","a","c","e">>>>, word |-> FALSE],
        [parts |-> <<<<"e","r","r","o","r"," ","s","c","r","e","e","n">>>>, word |-> FALSE]>>, t)
  THEN
    [label |-> "Blue Screen (BSOD)", confidence |-> 9500]
  ELSE
  IF re_search(<<[parts |-> <<<<"n","o"," ","b","o","o","t","a","b","l","e"," ","d","e","v","i","c","e">>>>, word |-> FALSE],
        [parts |-> <<<<"b","o","o","t"," ","f","a","i","l","u","r","e">>>>, word |-> FALSE],
        [parts |-> <<<<"b","o","o","t"," ","l","o","o","p">>>>, word |-> FALSE],
        [parts |-> <<<<"c","a","n","n","o","t"," ","b","o","o","t">>>>, word |-> FALSE],
        [parts |-> <<<<"c","a","n","t"," ","b","o","o","t">>>>, word |-> FALSE],
        [parts |-> <<<<"w","o","n","'","t"," ","b","o","o","t">>>>, word |-> FALSE],
        [parts |-> <<<<"w","o","n","t"," ","b","o","o","t">>>>, word |-> FALSE],
        [parts |-> <<<<"n","o","t"," ","s","t","a","r","t","i","n","g">>>>, word |-> FALSE],
        [parts |-> <<<<"w","o","n","'","t"," ","s","t","a","r","t">>>>, word |-> FALSE],
        [parts |-> <<<<"s","t","u","c","k"," ","o","n">>, <<"l","o","g","o">>>>, word |-> FALSE],
        [parts |-> <<<<"m","a","n","u","f","a","c","t","u","r","e","r"," ","l","o","g","o">>>>, word |-> FALSE],
        [parts |-> <<<<"b","l","a","c","k"," ","s","c","r","e","e","n"," ","a","f","t","e","r"," ","b","o","o","t">>>>, word |-> FALSE],
        [parts |-> <<<<"s","t","u","c","k"," ","o","n">>, <<"s","c","r","e","e","n">>>>, word |-> FALSE],
        [parts |-> <<<<"f","r","e","e","z","e","s"," ","o","n">>, <<"l","o","g","i","n">>>>, word |-> FALSE],
        [parts |-> <<<<"l","o","g","i","n"," ","s","c","r","e","e","n">>, <<"f","r","e","e","z","e">>>>, word |-> FALSE],
        [parts |-> <<<<"w","a","k","e"," ","f","r","o","m"," ","s","l","e","e","p">>>>, word |-> FALSE],
        [parts |-> <<<<"d","o","e","s"," ","n","o","t"," ","w","a","k","e">>>>, word |-> FALSE],
        [parts |-> <<<<"s","l","e","e","p"," ","m","o","d","e">>>>, word |-> FALSE],
        [parts |-> <<<<"w","i","n","d","o","w","s">>, <<"c","r","a","s","h">>, <<"i","n","s","t","a","l","l","i","n","g">>, <<"u","p","d","a","t","e","s">>>>, word |-> FALSE],
        [parts |-> <<<<"i","n","s","t","a","l","l","i","n","g">>, <<"u","p","d","a","t","e","s">>, <<"c","r","a","s","h">>>>, word |-> FALSE]>>, t)
  THEN
    [label |-> "Windows Boot Failure", confidence |-> 9000]
  ELSE
  IF re_search(<<[parts |-> <<<<"s","l","o","w"," ","b","o","o","t">>>>, word |-> FALSE],
        [parts |-> <<<<"b","o","o","t","s"," ","s","l","o","w","l","y">>>>, word |-> FALSE],
        [parts |-> <<<<"w","i","n","d","o","w","s"," ","t","a","k","e","s"," ">>, <<" ","m","i","n","u","t","e","s">>>>, word |-> FALSE],
        [parts |-> <<<<"w","i","n","d","o","w","s"," ","t","a","k","e","s"," ">>, <<" ","l","o","n","g">>>>, word |-> FALSE],
        [parts |-> <<<<"s","t","a","r","t","u","p"," ","s","l","o","w">>>>, word |-> FALSE],
        [parts |-> <<<<"o","s"," ","l","o","a","d"," ","s","l","o","w">>>>, word |-> FALSE],
        [parts |-> <<<<"t","a","k","e","s"," ","t","o","o"," ","l","o","n","g"," ","t","o"," ","s","t","a","r","t">>>>, word |-> FALSE],
        [parts |-> <<<<"t","a","k","e","s"," ","t","o","o"," ","l","o","n","g"," ","t","o"," ","o","p","e","n">>>>, word |-> FALSE],
        [parts |-> <<<<"f","i","l","e"," ","t","r","a","n","s","f","e","r","s">>, <<"s","l","o","w">>>>, word |-> FALSE],
        [parts |-> <<<<"f","i","l","e"," ","t","r","a","n","s","f","e","r">>, <<"s","l","o","w">>>>, word |-> FALSE],
        [parts |-> <<<<"s","l","o","w">>, <<"f","i","l","e">>>>, word |-> FALSE],
        [parts |-> <<<<"s","s","d">>, <<"s","l","o","w">>>>, word |-> FALSE],
        [parts |-> <<<<"r","e","a","d">>, <<"w","r","i","t","e">>, <<"s","l","o","w">>>>, word |-> FALSE],
        [parts |-> <<<<"c","a","n","n","o","t"," ","d","e","t","e","c","t">>, <<"s","s","d">>>>, word |-> FALSE],
        [parts |-> <<<<"s","s","d">>, <<"d","i","s","a","p","p","e","a","r">>>>, word |-> FALSE],
        [parts |-> <<<<"s","s","d">>, <<"n","o","t"," ","d","e","t","e","c","t">>>>, word |-> FALSE],
        [parts |-> <<<<"d","e","t","e","c","t">>, <<"s","s","d">>, <<"s","o","m","e","t","i","m","e","s">>>>, word |-> FALSE],
        [parts |-> <<<<"a","p","p","s">>, <<"s","l","o","w","l","y">>, <<"s","t","a","r","t","u","p">>>>, word |-> FALSE],
        [parts |-> <<<<"o","p","e","n">>, <<"s","l","o","w","l","y">>>>, word |-> FALSE],
        [parts |-> <<<<"h","a","n","g","s">>, <<"c","o","p","y","i","n","g">>>>, word |-> FALSE],
        [parts |-> <<<<"c","o","p","y","i","n","g">>, <<"l","a","r","g","e">>, <<"f","i","l","e","s">>>>, word |-> FALSE],
        [parts |-> <<<<"g","a","m","e","s">>, <<"f","o","r","e","v","e","r">>, <<"l","o","a","d">>>>, word |-> FALSE],
        [parts |-> <<<<"t","a","k","e"," ","f","o","r","e","v","e","r">>, <<"l","o","a","d">>>>, word |-> FALSE],
        [parts |-> <<<<"f","r","e","e","z","e","s">>, <<"d","o","w","n","l","o","a","d","i","n","g">>>>, word |-> FALSE],
        [parts |-> <<<<"d","o","w","n","l","o","a","d","i","n","g">>, <<"g","a","m","e","s">>>>, word |-> FALSE],
        [parts |-> <<<<"c","l","i","c","k","i","n","g">>, <<"a","p","p","s">>, <<"l","o","n","g">>>>, word |-> FALSE],
        [parts |-> <<<<"t","a","k","e","s">>, <<"l","o","n","g">>, <<"r","e","s","p","o","n","d">>>>, word |-> FALSE],
        [parts |-> <<<<"l","a","g","s">>, <<"a","f","t","e","r">>, <<"u","p","d","a","t","e">>>>, word |-> FALSE],
        [parts |-> <<<<"w","i","n","d","o","w","s"," ","u","p","d","a","t","e">>, <<"l","a","g">>>>, word |-> FALSE],
        [parts |-> <<<<"a","p","p","s">>, <<"v","e","r","y">>, <<"s","l","o","w","l","y">>, <<"s","t","a","r","t","u","p">>>>, word |-> FALSE]>>, t)
  THEN
    [label |-> "SSD Upgrade", confidence |-> 8500]
  ELSE
  IF re_search(<<[parts |-> <<<<"c","l","i","c","k","i","n","g">>, <<"n","o","i","s","e">>>>, word |-> FALSE],
        [parts |-> <<<<"n","o","i","s","e">>, <<"i","n","s","i","d","e">>, <<"c","o","m","p","u","t","e","r">>>>, word |-> FALSE],
        [parts |-> <<<<"c","l","i","c","k","i","n","g">>, <<"c","o","m","i","n","g">>>>, word |-> FALSE]>>, t)
  THEN
    [label |-> "SSD Upgrade", confidence |-> 8500]
  ELSE
  IF re_search(<<[parts |-> <<<<"m","a","n","y"," ","t","a","b","s">>>>, word |-> FALSE],
        [parts |-> <<<<"b","r","o","w","s","e","r"," ","t","a","b","s">>>>, word |-> FALSE],
        [parts |-> <<<<"c","h","r","o","m","e"," ","l","a","g">>>>, word |-> FALSE],
        [parts |-> <<<<"o","u","t"," ","o","f"," ","m","e","m","o","r","y">>>>, word |-> FALSE],
        [parts |-> <<<<"n","e","e","d"," ","m","o","r","e"," ","r","a","m">>>>, word |-> FALSE],
        [parts |-> <<<<"n","o","t"," ","e","n","o","u","g","h"," ","r","a","m">>>>, word |-> FALSE],
        [parts |-> <<<<"m","u","l","t","i","t","a","s","k","i","n","g"," ","s","l","o","w">>>>, word |-> FALSE],
        [parts |-> <<<<"m","u","l","t","i","p","l","e">>, <<"t","a","b","s">>>>, word |-> FALSE],
        [parts |-> <<<<"f","r","e","e","z","e">>, <<"t","a","b","s">>>>, word |-> FALSE],
        [parts |-> <<<<"a","p","p","s"," ","f","r","e","e","z","e">>>>, word |-> FALSE],
        [parts |-> <<<<"m","u","l","t","i","p","l","e"," ","a","p","p","s">>>>, word |-> FALSE],
        [parts |-> <<<<"f","r","e","e","z","e","s"," ","w","h","e","n">>, <<"t","a","b","s">>>>, word |-> FALSE],
        [parts |-> <<<<"c","h","r","o","m","e">>, <<"f","r","e","e","z","e">>>>, word |-> FALSE],
        [parts |-> <<<<"c","a","n","n","o","t"," ","d","e","t","e","c","t">>, <<"r","a","m">>>>, word |-> FALSE],
        [parts |-> <<<<"r","a","m">>, <<"s","t","i","c","k","s">>, <<"c","l","e","a","n","i","n","g">>>>, word |-> FALSE],
        [parts |-> <<<<"d","e","t","e","c","t">>, <<"r","a","m">>, <<"a","f","t","e","r">>>>, word |-> FALSE],
        [parts |-> <<<<"r","a","m"," ","s","t","i","c","k","s">>, <<"c","l","e","a","n","i","n","g">>>>, word |-> FALSE]>>, t)
  THEN
    [label |-> "RAM Upgrade", confidence |-> 9000]
  ELSE
  IF re_search(<<[parts |-> <<<<"n","o"," ","w","i","f","i">>>>, word |-> FALSE],
        [parts |-> <<<<"n","o"," ","w","i","-","f","i">>>>, word |-> FALSE],
        [parts |-> <<<<"u","n","s","t","a","b","l","e"," ","w","i","f","i">>>>, word |-> FALSE],
        [parts |-> <<<<"w","i","f","i"," ","d","i","s","c","o","n","n","e","c","t">>>>, word |-> FALSE],
        [parts |-> <<<<"w","i","f","i"," ","d","r","o","p","p","i","n","g">>>>, word |-> FALSE],
        [parts |-> <<<<"w","e","a","k"," ","w","i","f","i">>>>, word |-> FALSE],
        [parts |-> <<<<"w","i","f","i"," ","n","o","t"," ","w","o","r","k","i","n","g">>>>, word |-> FALSE],
        [parts |-> <<<<"i","n","t","e","r","n","e","t"," ","n","o","t"," ","w","o","r","k","i","n","g">>>>, word |-> FALSE],
        [parts |-> <<<<"w","i","f","i"," ","d","i","s","c","o","n","n","e","c","t","s">>>>, word |-> FALSE],
        [parts |-> <<<<"s","l","o","w">>, <<"i","n","t","e","r","n","e","t">>>>, word |-> FALSE],
        [parts |-> <<<<"i","n","t","e","r","n","e","t">>, <<"s","l","o","w">>>>, word |-> FALSE],
        [parts |-> <<<<"s","l","o","w">>, <<"w","i","f","i">>>>, word |-> FALSE],
        [parts |-> <<<<"w","i","f","i">>, <<"s","l","o","w">>>>, word |-> FALSE],
        [parts |-> <<<<"l","i","m","i","t","e","d"," ","c","o","n","n","e","c","t","i","v","i","t","y">>>>, word |-> FALSE],
        [parts |-> <<<<"d","o","e","s"," ","n","o","t"," ","d","e","t","e","c","t">>, <<"w","i","f","i">>>>, word |-> FALSE],
        [parts |-> <<<<"w","i","f","i"," ","a","d","a","p","t","e","r">>, <<"n","o","t"," ","d","e","t","e","c","t">>>>, word |-> FALSE],
        [parts |-> <<<<"d","i","s","c","o","n","n","e","c","t","s">>, <<"o","n","l","y">>, <<"d","e","s","k","t","o","p">>>>, word |-> FALSE],
        [parts |-> <<<<"d","i","s","c","o","n","n","e","c","t","s">>, <<"d","o","w","n","l","o","a","d","i","n","g">>>>, word |-> FALSE],
        [parts |-> <<<<"d","o","w","n","l","o","a","d","i","n","g">>, <<"f","i","l","e","s">>, <<"d","i","s","c","o","n","n","e","c","t">>>>, word |-> FALSE],
        [parts |-> <<<<"i","n","t","e","r","n","e","t">>, <<"d","i","s","c","o","n","n","e","c","t">>, <<"d","o","w","n","l","o","a","d","i","n","g">>>>, word |-> FALSE],
        [parts |-> <<<<"d","o","w","n","l","o","a","d","i","n","g">>, <<"f","i","l","e","s">>>>, word |-> FALSE]>>, t)
  THEN
    [label |-> "Wi-Fi Adapter Upgrade", confidence |-> 9000]
  ELSE
  IF (re_search(<<[parts |-> <<<<"p","h","o","n","e">>>>, word |-> FALSE],
        [parts |-> <<<<"m","o","b","i","l","e">>>>, word |-> FALSE],
        [parts |-> <<<<"a","n","d","r","o","i","d">>>>, word |-> FALSE],
        [parts |-> <<<<"i","p","h","o","n","e">>>>, word |-> FALSE],
        [parts |-> <<<<"d","e","v","i","c","e">>>>, word |-> FALSE]>>, t) /\ re_search(<<[parts |-> <<<<"c","o","n","n","e","c","t">>>>, word |-> FALSE],
        [parts |-> <<<<"c","o","n","n","e","c","t","i","n","g">>>>, word |-> FALSE],
        [parts |-> <<<<"c","o","n","n","e","c","t","i","o","n">>>>, word |-> FALSE],
        [parts |-> <<<<"n","o","t"," ","c","o","n","n","e","c","t","i","n","g">>>>, word |-> FALSE],
        [parts |-> <<<<"w","o","n","'","t"," ","c","o","n","n","e","c","t">>>>, word |-> FALSE],
        [parts |-> <<<<"c","a","n","'","t"," ","c","o","n","n","e","c","t">>>>, word |-> FALSE],
        [parts |-> <<<<"n","o","t"," ","r","e","c","o","g","n","i","z","e","d">>>>, word |-> FALSE],
        [parts |-> <<<<"n","o","t"," ","d","e","t","e","c","t","e","d">>>>, word |-> FALSE]>>, t))
  THEN
    [label |-> "Phone Connection Issue", confidence |-> 9000]
  ELSE
  IF (re_search(<<[parts |-> <<<<"b","l","u","e","t","o","o","t","h">>>>, word |-> FALSE]>>, t) /\ re_search(<<[parts |-> <<<<"n","o","t"," ","w","o","r","k","i","n","g">>>>, word |-> FALSE],
        [parts |-> <<<<"n","o"," ","w","o","r","k","i","n","g">>>>, word |-> FALSE],
        [parts |-> <<<<"n","o","t"," ","c","o","n","n","e","c","t">>>>, word |-> FALSE],
        [parts |-> <<<<"w","o","n","'","t"," ","c","o","n","n","e","c","t">>>>, word |-> FALSE],
        [parts |-> <<<<"c","a","n","'","t"," ","c","o","n","n","e","c","t">>>>, word |-> FALSE],
        [parts |-> <<<<"n","o","t"," ","d","e","t","e","c","t","e","d">>>>, word |-> FALSE],
        [parts |-> <<<<"n","o","t"," ","r","e","c","o","g","n","i","z","e","d">>>>, word |-> FALSE],
        [parts |-> <<<<"d","i","s","c","o","n","n","e","c","t">>>>, word |-> FALSE],
        [parts |-> <<<<"k","e","e","p">>, <<"d","i","s","c","o","n","n","e","c","t">>>>, word |-> FALSE],
        [parts |-> <<<<"d","o","e","s","n","'","t"," ","w","o","r","k">>>>, word |-> FALSE],
        [parts |-> <<<<"d","o","e","s"," ","n","o","t"," ","w","o","r","k">>>>, word |-> FALSE],
        [parts |-> <<<<"n","o","t"," ","p","a","i","r","i","n","g">>>>, word |-> FALSE],
        [parts |-> <<<<"w","o","n","'","t"," ","p","a","i","r">>>>, word |-> FALSE]>>, t))
  THEN
    [label |-> "General Repair", confidence |-> 9000]
  ELSE
  IF (re_search(<<[parts |-> <<<<"u","s","b">>>>, word |-> FALSE],
        [parts |-> <<<<"p","o","r","t">>>>, word |-> FALSE],
        [parts |-> <<<<"c","a","b","l","e">>>>, word |-> FALSE],
        [parts |-> <<<<"d","r","i","v","e">>>>, word |-> FALSE],
        [parts |-> <<<<"m","o","u","s","e">>>>, word |-> FALSE],
        [parts |-> <<<<"p","r","i","n","t","e","r">>>>, word |-> FALSE],
        [parts |-> <<<<"h","e","a","d","p","h","o","n","e">>>>, word |-> FALSE],
        [parts |-> <<<<"m","i","c">>>>, word |-> FALSE],
        [parts |-> <<<<"m","i","c","r","o","p","h","o","n","e">>>>, word |-> FALSE],
        [parts |-> <<<<"h","a","r","d"," ","d","r","i","v","e">>>>, word |-> FALSE],
        [parts |-> <<<<"s","e","c","o","n","d","a","r","y">>, <<"d","r","i","v","e">>>>, word |-> FALSE]>>, t) /\ re_search(<<[parts |-> <<<<"n","o","t"," ","r","e","c","o","g","n","i","z","e","d">>>>, word |-> FALSE],
        [parts |-> <<<<"n","o","t"," ","d","e","t","e","c","t","e","d">>>>, word |-> FALSE],
        [parts |-> <<<<"n","o","t"," ","s","h","o","w","i","n","g">>>>, word |-> FALSE],
        [parts |-> <<<<"d","o","e","s","n","'","t"," ","s","h","o","w">>>>, word |-> FALSE],
        [parts |-> <<<<"w","o","n","'","t"," ","d","e","t","e","c","t">>>>, word |-> FALSE],
        [parts |-> <<<<"n","o","t"," ","w","o","r","k","i","n","g">>>>, word |-> FALSE],
        [parts |-> <<<<"d","o","e","s"," ","n","o","t"," ","d","e","t","e","c","t">>>>, word |-> FALSE],
        [parts |-> <<<<"c","a","n","n","o","t"," ","d","e","t","e","c","t">>>>, word |-> FALSE],
        [parts |-> <<<<"w","o","n","'","t"," ","d","e","t","e","c","t">>>>, word |-> FALSE],
        [parts |-> <<<<"d","i","s","c","o","n","n","e","c","t">>, <<"r","a","n","d","o","m","l","y">>>>, word |-> FALSE],
        [parts |-> <<<<"r","a","n","d","o","m","l","y">>, <<"d","i","s","c","o","n","n","e","c","t">>>>, word |-> FALSE],
        [parts |-> <<<<"s","t","o","p">>, <<"w","o","r","k","i","n","g">>, <<"m","i","n","u","t","e","s">>>>, word |-> FALSE],
        [parts |-> <<<<"p","o","r","t","s">>, <<"s","t","o","p">>>>, word |-> FALSE],
        [parts |-> <<<<"w","i","r","e","l","e","s","s">>, <<"m","o","u","s","e">>, <<"l","a","g">>>>, word |-> FALSE],
        [parts |-> <<<<"m","o","u","s","e">>, <<"l","a","g">>, <<"r","a","n","d","o","m","l","y">>>>, word |-> FALSE]>>, t))
  THEN
    IF (Contains(t, <<"s","e","c","o","n","d","a","r","y">>) \/ (Contains(t, <<"h","a","r","d"," ","d","r","i","v","e">>) /\ ~Contains(t, <<"s","e","c","o","n","d","a","r","y">>) /\ Contains(t, <<"c","a","n","n","o","t"," ","d","e","t","e","c","t">>)))
    THEN
      [label |-> "SSD Upgrade", confidence |-> 8500]
    ELSE
    IF (Contains(t, <<"p","r","i","n","t","e","r">>) /\ Contains(t, <<"r","e","c","o","g","n","i","z","e">>))
    THEN
      [label |-> "USB / Port Issue", confidence |-> 8500]
    ELSE
    IF (Contains(t, <<"h","e","a","d","p","h","o","n","e">>) /\ Contains(t, <<"m","i","c">>))
    THEN
      [label |-> "USB / Port Issue", confidence |-> 8500]
    ELSE
    [label |-> "USB / Port Issue", confidence |-> 8500]
  ELSE
  LET has_bluetooth == re_search(<<[parts |-> <<<<"b","l","u","e","t","o","o","t","h">>>>, word |-> FALSE]>>, t)
  IN
  IF (~has_bluetooth /\ re_search(<<[parts |-> <<<<"n","o"," ","s","i","g","n","a","l">>, <<"p","c">>, <<"r","u","n","n","i","n","g">>>>, word |-> FALSE],
        [parts |-> <<<<"n","o"," ","s","i","g","n","a","l">>, <<"e","v","e","n"," ","t","h","o","u","g","h">>>>, word |-> FALSE],
        [parts |-> <<<<"m","o","n","i","t","o","r"," ","s","h","o","w","s">>, <<"n","o"," ","s","i","g","n","a","l">>>>, word |-> FALSE]>>, t))
  THEN
    [label |-> "No Display / No Signal", confidence |-> 9000]
  ELSE
  IF (~has_bluetooth /\ re_search(<<[parts |-> <<<<"n","o"," ","d","i","s","p","l","a","y">>>>, word |-> FALSE],
        [parts |-> <<<<"b","l","a","c","k"," ","s","c","r","e","e","n"," ","b","u","t"," ","p","c"," ","o","n">>>>, word |-> FALSE],
        [parts |-> <<<<"m","o","n","i","t","o","r">>, <<"b","l","i","n","k","i","n","g">>>>, word |-> FALSE],
        [parts |-> <<<<"s","c","r","e","e","n">>, <<"f","l","i","c","k","e","r">>>>, word |-> FALSE],
        [parts |-> <<<<"m","o","n","i","t","o","r"," ","n","o","t"," ","p","o","w","e","r"," ","o","n">>>>, word |-> FALSE],
        [parts |-> <<<<"f","l","i","c","k","e","r","i","n","g">>>>, word |-> FALSE],
        [parts |-> <<<<"f","l","i","c","k","e","r">>>>, word |-> FALSE],
        [parts |-> <<<<"c","o","l","o","r"," ","l","i","n","e","s">>>>, word |-> FALSE],
        [parts |-> <<<<"r","a","n","d","o","m">>, <<"l","i","n","e","s">>>>, word |-> FALSE],
        [parts |-> <<<<"g","h","o","s","t","i","n","g">>>>, word |-> FALSE],
        [parts |-> <<<<"s","t","a","t","i","c"," ","n","o","i","s","e">>>>, word |-> FALSE],
        [parts |-> <<<<"d","i","m"," ","b","r","i","g","h","t","n","e","s","s">>>>, word |-> FALSE],
        [parts |-> <<<<"b","l","u","r","r","y">>>>, word |-> FALSE],
        [parts |-> <<<<"r","e","f","r","e","s","h"," ","r","a","t","e">>>>, word |-> FALSE],
        [parts |-> <<<<"t","u","r","n","s"," ","o","f","f">>, <<"r","a","n","d","o","m","l","y">>>>, word |-> FALSE],
        [parts |-> <<<<"r","a","n","d","o","m","l","y">>, <<"t","u","r","n","s"," ","o","f","f">>>>, word |-> FALSE],
        [parts |-> <<<<"r","e","f","u","s","e","s">>, <<"c","o","n","n","e","c","t">>, <<"m","o","n","i","t","o","r">>>>, word |-> FALSE],
        [parts |-> <<<<"e","x","t","e","r","n","a","l"," ","m","o","n","i","t","o","r">>>>, word |-> FALSE],
        [parts |-> <<<<"f","r","e","e","z","e","s">>, <<"c","o","n","n","e","c","t","i","n","g">>, <<"h","d","m","i">>>>, word |-> FALSE],
        [parts |-> <<<<"h","d","m","i">>, <<"c","a","b","l","e">>>>, word |-> FALSE]>>, t))
  THEN
    [label |-> "Monitor or GPU Check", confidence |-> 8500]
  ELSE
  IF re_search(<<[parts |-> <<<<"m","o","n","i","t","o","r">>, <<"n","o","t"," ","p","o","w","e","r">>>>, word |-> FALSE],
        [parts |-> <<<<"m","o","n","i","t","o","r">>, <<"w","o","n","'","t"," ","p","o","w","e","r">>>>, word |-> FALSE],
        [parts |-> <<<<"m","o","n","i","t","o","r">>, <<"n","o"," ","p","o","w","e","r">>>>, word |-> FALSE]>>, t)
  THEN
    [label |-> "PSU / Power Issue", confidence |-> 8500]
  ELSE
  IF re_search(<<[parts |-> <<<<"u","p","g","r","a","d","e"," ","s","s","d">>>>, word |-> FALSE],
        [parts |-> <<<<"a","d","d"," ","s","s","d">>>>, word |-> FALSE],
        [parts |-> <<<<"b","i","g","g","e","r"," ","s","s","d">>>>, word |-> FALSE],
        [parts |-> <<<<"n","e","w"," ","s","s","d">>>>, word |-> FALSE],
        [parts |-> <<<<"1","t","b"," ","s","s","d">>>>, word |-> FALSE],
        [parts |-> <<<<"2","t","b"," ","s","s","d">>>>, word |-> FALSE]>>, t)
  THEN
    [label |-> "SSD Upgrade", confidence |-> 9000]
  ELSE
  IF re_search(<<[parts |-> <<<<"u","p","g","r","a","d","e"," ","r","a","m">>>>, word |-> FALSE],
        [parts |-> <<<<"n","e","e","d"," ","m","o","r","e"," ","r","a","m">>>>, word |-> FALSE],
        [parts |-> <<<<"m","o","r","e"," ","r","a","m">>>>, word |-> FALSE],
        [parts |-> <<<<"a","d","d"," ","r","a","m">>>>, word |-> FALSE],
        [parts |-> <<<<"n","e","w"," ","r","a","m">>>>, word |-> FALSE],
        [parts |-> <<<<"8","g","b"," ","r","a","m">>>>, word |-> FALSE],
        [parts |-> <<<<"1","6","g","b"," ","r","a","m">>>>, word |-> FALSE]>>, t)
  THEN
    [label |-> "RAM Upgrade", confidence |-> 9000]
  ELSE
  IF re_search(<<[parts |-> <<<<"s","c","r","e","e","n">>, <<"b","l","a","c","k">>, <<"g","a","m","i","n","g">>>>, word |-> FALSE],
        [parts |-> <<<<"b","l","a","c","k">>, <<"g","a","m","i","n","g">>>>, word |-> FALSE],
        [parts |-> <<<<"s","t","u","t","t","e","r">>, <<"m","i","n","u","t","e","s">>>>, word |-> FALSE],
        [parts |-> <<<<"g","a","m","e","s">>, <<"s","t","u","t","t","e","r">>>>, word |-> FALSE],
        [parts |-> <<<<"g","a","m","e","s">>, <<"c","r","a","s","h">>, <<"m","i","n","u","t","e","s">>>>, word |-> FALSE],
        [parts |-> <<<<"c","r","a","s","h","i","n","g">>, <<"f","e","w">>, <<"m","i","n","u","t","e","s">>>>, word |-> FALSE],
        [parts |-> <<<<"g","a","m","e","s">>, <<"k","e","e","p">>, <<"c","r","a","s","h","i","n","g">>>>, word |-> FALSE],
        [parts |-> <<<<"s","t","u","t","t","e","r">>, <<"f","e","w">>, <<"m","i","n","u","t","e","s">>>>, word |-> FALSE],
        [parts |-> <<<<"p","l","a","y">>, <<"s","t","u","t","t","e","r">>>>, word |-> FALSE]>>, t)
  THEN
    [label |-> "GPU Overheat", confidence |-> 9000]
  ELSE
  IF re_search(<<[parts |-> <<<<"u","p","g","r","a","d","e"," ","g","p","u">>>>, word |-> FALSE],
        [parts |-> <<<<"n","e","w"," ","g","r","a","p","h","i","c","s"," ","c","a","r","d">>>>, word |-> FALSE],
        [parts |-> <<<<"b","e","t","t","e","r"," ","g","p","u">>>>, word |-> FALSE],
        [parts |-> <<<<"l","o","w"," ","f","p","s">>>>, word |-> FALSE],
        [parts |-> <<<<"f","p","s">>, <<"l","o","w">>>>, word |-> FALSE],
        [parts |-> <<<<"g","r","a","p","h","i","c","s"," ","c","a","r","d">>>>, word |-> FALSE],
        [parts |-> <<<<"g","p","u">>, <<"n","o","t"," ","d","e","t","e","c","t">>>>, word |-> FALSE],
        [parts |-> <<<<"w","o","n","'","t"," ","d","e","t","e","c","t">>, <<"g","r","a","p","h","i","c","s">>>>, word |-> FALSE],
        [parts |-> <<<<"g","r","a","p","h","i","c","s">>, <<"e","r","r","o","r">>>>, word |-> FALSE],
        [parts |-> <<<<"d","e","v","i","c","e"," ","m","a","n","a","g","e","r">>, <<"e","r","r","o","r">>>>, word |-> FALSE],
        [parts |-> <<<<"v","i","d","e","o"," ","e","d","i","t","i","n","g">>, <<"c","r","a","s","h">>>>, word |-> FALSE],
        [parts |-> <<<<"d","r","i","v","e","r">>, <<"u","p","d","a","t","e">>, <<"c","r","a","s","h">>>>, word |-> FALSE],
        [parts |-> <<<<"g","p","u">>, <<"f","a","n","s">>, <<"n","o","t">>, <<"s","p","i","n">>>>, word |-> FALSE],
        [parts |-> <<<<"f","a","n","s">>, <<"d","o"," ","n","o","t">>, <<"s","p","i","n">>>>, word |-> FALSE],
        [parts |-> <<<<"v","i","d","e","o"," ","e","d","i","t","i","n","g">>, <<"s","o","f","t","w","a","r","e">>, <<"c","r","a","s","h">>>>, word |-> FALSE]>>, t)
  THEN
    [label |-> "GPU Upgrade", confidence |-> 9000]
  ELSE
  IF re_search(<<[parts |-> <<<<"l","a","g","s">>, <<"o","p","e","n","i","n","g">>, <<"g","a","m","e","s">>>>, word |-> FALSE],
        [parts |-> <<<<"o","p","e","n","i","n","g">>, <<"g","a","m","e","s">>, <<"l","a","g">>>>, word |-> FALSE],
        [parts |-> <<<<"s","y","s","t","e","m">>, <<"l","a","g","s">>, <<"o","p","e","n","i","n","g">>, <<"g","a","m","e","s">>>>, word |-> FALSE]>>, t)
  THEN
    [label |-> "GPU Upgrade", confidence |-> 8500]
  ELSE
  IF re_search(<<[parts |-> <<<<"a","u","d","i","o">>, <<"c","r","a","c","k","l","i","n","g">>>>, word |-> FALSE],
        [parts |-> <<<<"c","r","a","c","k","l","i","n","g">>, <<"a","u","d","i","o">>>>, word |-> FALSE],
        [parts |-> <<<<"m","i","c","r","o","p","h","o","n","e">>, <<"d","o","e","s"," ","n","o","t">>>>, word |-> FALSE],
        [parts |-> <<<<"m","i","c">>, <<"d","o","e","s"," ","n","o","t">>>>, word |-> FALSE],
        [parts |-> <<<<"a","u","d","i","o">>, <<"w","o","r","k","s">>, <<"m","i","c","r","o","p","h","o","n","e">>>>, word |-> FALSE],
        [parts |-> <<<<"b","a","t","t","e","r","y">>, <<"d","r","a","i","n">>, <<"q","u","i","c","k","l","y">>>>, word |-> FALSE],
        [parts |-> <<<<"d","r","a","i","n","s">>, <<"q","u","i","c","k","l","y">>>>, word |-> FALSE],
        [parts |-> <<<<"k","e","y","b","o","a","r","d">>, <<"t","y","p","e","s">>, <<"o","w","n">>>>, word |-> FALSE],
        [parts |-> <<<<"t","y","p","e","s">>, <<"o","w","n">>, <<"s","o","m","e","t","i","m","e","s">>>>, word |-> FALSE],
        [parts |-> <<<<"k","e","y","b","o","a","r","d">>, <<"s","t","o","p">>, <<"w","o","r","k","i","n","g">>, <<"s","l","e","e","p">>>>, word |-> FALSE],
        [parts |-> <<<<"w","a","k","i","n","g">>, <<"s","l","e","e","p">>>>, word |-> FALSE],
        [parts |-> <<<<"b","l","u","e","t","o","o","t","h">>, <<"h","e","a","d","p","h","o","n","e">>, <<"d","i","s","c","o","n","n","e","c","t">>>>, word |-> FALSE],
        [parts |-> <<<<"b","l","u","e","t","o","o","t","h">>, <<"k","e","e","p">>, <<"d","i","s","c","o","n","n","e","c","t","i","n","g">>>>, word |-> FALSE],
        [parts |-> <<<<"b","l","u","e","t","o","o","t","h">>, <<"d","e","v","i","c","e">>, <<"c","o","n","n","e","c","t">>>>, word |-> FALSE],
        [parts |-> <<<<"c","o","n","n","e","c","t">>, <<"b","l","u","e","t","o","o","t","h">>>>, word |-> FALSE],
        [parts |-> <<<<"k","e","y","b","o","a","r","d">>, <<"r","g","b">>, <<"s","t","o","p">>>>, word |-> FALSE],
        [parts |-> <<<<"r","g","b">>, <<"l","i","g","h","t","s">>, <<"s","t","o","p">>>>, word |-> FALSE],
        [parts |-> <<<<"t","o","u","c","h","p","a","d">>, <<"u","n","r","e","s","p","o","n","s","i","v","e">>>>, word |-> FALSE],
        [parts |-> <<<<"u","n","r","e","s","p","o","n","s","i","v","e">>, <<"t","o","u","c","h","p","a","d">>>>, word |-> FALSE],
        [parts |-> <<<<"k","e","y","b","o","a","r","d">>, <<"k","e","y","s">>, <<"d","e","l","a","y">>>>, word |-> FALSE],
        [parts |-> <<<<"k","e","y","s">>, <<"r","e","s","p","o","n","d">>, <<"d","e","l","a","y">>>>, word |-> FALSE],
        [parts |-> <<<<"s","h","u","t","s"," ","d","o","w","n">>, <<"5","0">>, <<"b","a","t","t","e","r","y">>>>, word |-> FALSE],
        [parts |-> <<<<"b","a","t","t","e","r","y">>, <<"5","0">>, <<"s","h","u","t">>>>, word |-> FALSE]>>, t)
  THEN
    [label |-> "General Repair", confidence |-> 7000]
  ELSE
  IF re_search(<<[parts |-> <<<<"d","e","s","k","t","o","p">>>>, word |-> FALSE],
        [parts |-> <<<<"p","c">>>>, word |-> FALSE],
        [parts |-> <<<<"c","o","m","p","u","t","e","r">>>>, word |-> FALSE]>>, t)
  THEN
    [label |-> "General Desktop Issue", confidence |-> 4000]
  ELSE
  IF re_search(<<[parts |-> <<<<"l","a","p","t","o","p">>>>, word |-> FALSE],
        [parts |-> <<<<"n","o","t","e","b","o","o","k">>>>, word |-> FALSE]>>, t)
  THEN
    [label |-> "General Laptop Issue", confidence |-> 4000]
  ELSE
  [label |-> None, confidence |-> 0]

\* app.py 2592-2702
detect_error_type_rules(txt) ==
  IF (~(txt # <<>>) \/ ~(strip(txt) # <<>>))
  THEN
    [label |-> None, confidence |-> 0, alternatives |-> <<>>]
  ELSE
  LET text_lower == strip(lower(txt))
  IN
  LET has_overheat == any_in(<<<<"o","v","e","r","h","e","a","t">>, <<"t","o","o"," ","h","o","t">>, <<"h","i","g","h"," ","t","e","m","p">>, <<"t","e","m","p","e","r","a","t","u","r","e">>, <<"t","h","e","r","m","a","l">>, <<"h","e","a","t","i","n","g">>, <<"h","o","t">>, <<"f","a","n">>, <<"c","o","o","l","i","n","g">>>>, text_lower)
  IN
  LET has_gaming == any_in(<<<<"g","a","m","e">>, <<"g","a","m","i","n","g">>, <<"v","a","l","o","r","a","n","t">>, <<"c","s","g","o">>, <<"p","u","b","g">>, <<"f","o","r","t","n","i","t","e">>, <<"f","p","s">>, <<"a","p","e","x">>, <<"l","e","a","g","u","e">>, <<"d","o","t","a">>>>, text_lower)
  IN
  IF (has_overheat /\ has_gaming)
  THEN
    [label |-> "GPU Overheat", confidence |-> 9000, alternatives |-> <<[label |-> "GPU Overheat", confidence |-> 9000], [label |-> "CPU Overheat", confidence |-> 3000]>>]
  ELSE
  IF (has_overheat /\ ~has_gaming)
  THEN
    [label |-> "CPU Overheat", confidence |-> 8000, alternatives |-> <<[label |-> "CPU Overheat", confidence |-> 8000], [label |-> "GPU Overheat", confidence |-> 4000]>>]
  ELSE
  IF any_in(<<<<"b","s","o","d">>, <<"b","l","u","e"," ","s","c","r","e","e","n">>, <<"s","t","o","p"," ","c","o","d","e">>, <<"0","x","0","0","0","0","0","0">>, <<"s","a","d"," ","f","a","c","e">>, <<"e","r","r","o","r"," ","s","c","r","e","e","n">>>>, text_lower)
  THEN
    [label |-> "Blue Screen (BSOD)", confidence |-> 9000, alternatives |-> <<[label |-> "Blue Screen (BSOD)", confidence |-> 9000], [label |-> "Windows Boot Failure", confidence |-> 3000]>>]
  ELSE
  IF any_in(<<<<"n","o"," ","b","o","o","t","a","b","l","e"," ","d","e","v","i","c","e">>, <<"b","o","o","t"," ","f","a","i","l","u","r","e">>, <<"b","o","o","t"," ","l","o","o","p">>, <<"c","a","n","n","o","t"," ","b","o","o","t">>, <<"w","o","n","'","t"," ","b","o","o","t">>>>, text_lower)
  THEN
    [label |-> "Windows Boot Failure", confidence |-> 8500, alternatives |-> <<[label |-> "Windows Boot Failure", confidence |-> 8500]>>]
  ELSE
  LET has_power_keywords == any_in(<<<<"n","o","t"," ","p","o","w","e","r">>, <<"w","o","n","'","t"," ","p","o","w","e","r">>, <<"n","o"," ","p","o","w","e","r">>, <<"p","o","w","e","r"," ","n","o","t">>, <<"p","o","w","e","r"," ","o","f","f">>, <<"n","o","t"," ","t","u","r","n","i","n","g"," ","o","n">>, <<"w","o","n","'","t"," ","t","u","r","n"," ","o","n">>, <<"n","o","t"," ","s","t","a","r","t","i","n","g">>, <<"n","o","t"," ","b","o","o","t","i","n","g">>>>, text_lower)
  IN
  LET has_monitor_keywords == any_in(<<<<"m","o","n","i","t","o","r">>, <<"d","i","s","p","l","a","y">>, <<"s","c","r","e","e","n">>>>, text_lower)
  IN
  IF (has_monitor_keywords /\ has_power_keywords)
  THEN
    [label |-> "PSU / Power Issue", confidence |-> 8500, alternatives |-> <<[label |-> "PSU / Power Issue", confidence |-> 8500], [label |-> "RAM Upgrade", confidence |-> 6000], [label |-> "No Display / No Signal", confidence |-> 5000], [label |-> "Windows Boot Failure", confidence |-> 4000]>>]
  ELSE
  IF (any_in(<<<<"n","o"," ","s","i","g","n","a","l">>, <<"n","o"," ","d","i","s","p","l","a","y">>, <<"b","l","a","c","k"," ","s","c","r","e","e","n">>, <<"b","l","a","n","k"," ","s","c","r","e","e","n">>, <<"n","o"," ","i","m","a","g","e">>>>, text_lower) /\ ~has_power_keywords)
  THEN
    [label |-> "No Display / No Signal", confidence |-> 8500, alternatives |-> <<[label |-> "No Display / No Signal", confidence |-> 8500], [label |-> "Monitor Issue", confidence |-> 6000]>>]
  ELSE
  IF (any_in(<<<<"w","o","n","'","t"," ","p","o","w","e","r">>, <<"n","o","t"," ","p","o","w","e","r">>, <<"n","o"," ","p","o","w","e","r">>, <<"p","o","w","e","r"," ","n","o","t">>, <<"w","o","n","'","t"," ","t","u","r","n"," ","o","n">>, <<"n","o","t"," ","t","u","r","n","i","n","g"," ","o","n">>, <<"n","o","t"," ","s","t","a","r","t","i","n","g">>, <<"n","o","t"," ","b","o","o","t","i","n","g">>>>, text_lower) /\ ~has_monitor_keywords)
  THEN
    [label |-> "PSU / Power Issue", confidence |-> 8500, alternatives |-> <<[label |-> "PSU / Power Issue", confidence |-> 8500], [label |-> "RAM Upgrade", confidence |-> 5000], [label |-> "Windows Boot Failure", confidence |-> 4000]>>]
  ELSE
  IF any_in(<<<<"r","e","s","t","a","r","t">>, <<"s","h","u","t","d","o","w","n">>, <<"t","u","r","n","s"," ","o","f","f">>, <<"s","h","u","t","s"," ","d","o","w","n">>, <<"r","e","b","o","o","t">>, <<"r","e","s","t","a","r","t","i","n","g">>>>, text_lower)
  THEN
    IF has_gaming
    THEN
      [label |-> "GPU Overheat", confidence |-> 8000, alternatives |-> <<[label |-> "GPU Overheat", confidence |-> 8000], [label |-> "PSU / Power Issue", confidence |-> 5000]>>]
    ELSE
    [label |-> "PSU / Power Issue", confidence |-> 7500, alternatives |-> <<[label |-> "PSU / Power Issue", confidence |-> 7500], [label |-> "CPU Overheat", confidence |-> 4000], [label |-> "RAM Upgrade", confidence |-> 3000]>>]
  ELSE
  IF any_in(<<<<"u","p","g","r","a","d","e"," ","s","s","d">>, <<"a","d","d"," ","s","s","d">>, <<"b","i","g","g","e","r"," ","s","s","d">>, <<"1","t","b"," ","s","s","d">>, <<"2","t","b"," ","s","s","d">>>>, text_lower)
  THEN
    [label |-> "SSD Upgrade", confidence |-> 9000, alternatives |-> <<[label |-> "SSD Upgrade", confidence |-> 9000]>>]
  ELSE
  IF any_in(<<<<"u","p","g","r","a","d","e"," ","r","a","m">>, <<"n","e","e","d"," ","r","a","m">>, <<"m","o","r","e"," ","r","a","m">>, <<"a","d","d"," ","r","a","m">>>>, text_lower)
  THEN
    [label |-> "RAM Upgrade", confidence |-> 9000, alternatives |-> <<[label |-> "RAM Upgrade", confidence |-> 9000]>>]
  ELSE
  IF any_in(<<<<"u","p","g","r","a","d","e"," ","g","p","u">>, <<"n","e","w"," ","g","p","u">>, <<"b","e","t","t","e","r"," ","g","p","u">>>>, text_lower)
  THEN
    [label |-> "GPU Upgrade", confidence |-> 8500, alternatives |-> <<[label |-> "GPU Upgrade", confidence |-> 8500]>>]
  ELSE
  LET has_phone == any_in(<<<<"p","h","o","n","e">>, <<"m","o","b","i","l","e">>, <<"a","n","d","r","o","i","d">>, <<"i","p","h","o","n","e">>, <<"d","e","v","i","c","e">>>>, text_lower)
  IN
  LET has_connect == any_in(<<<<"c","o","n","n","e","c","t">>, <<"c","o","n","n","e","c","t","i","n","g">>, <<"c","o","n","n","e","c","t","i","o","n">>, <<"n","o","t"," ","c","o","n","n","e","c","t","i","n","g">>, <<"w","o","n","'","t"," ","c","o","n","n","e","c","t">>, <<"c","a","n","'","t"," ","c","o","n","n","e","c","t">>>>, text_lower)
  IN
  LET has_usb == any_in(<<<<"u","s","b">>, <<"c","a","b","l","e">>, <<"w","i","r","e">>>>, text_lower)
  IN
  LET has_not_recognized == any_in(<<<<"n","o","t"," ","r","e","c","o","g","n","i","z","e","d">>, <<"n","o","t"," ","d","e","t","e","c","t","e","d">>, <<"n","o","t"," ","s","h","o","w","i","n","g">>, <<"d","o","e","s","n","'","t"," ","s","h","o","w">>, <<"w","o","n","'","t"," ","d","e","t","e","c","t">>>>, text_lower)
  IN
  IF (has_phone /\ (has_connect \/ has_not_recognized))
  THEN
    [label |-> "Phone Connection Issue", confidence |-> 9000, alternatives |-> <<[label |-> "Phone Connection Issue", confidence |-> 9000], [label |-> "USB / Port Issue", confidence |-> 6000]>>]
  ELSE
  IF (has_usb /\ has_not_recognized)
  THEN
    [label |-> "USB / Port Issue", confidence |-> 8500, alternatives |-> <<[label |-> "USB / Port Issue", confidence |-> 8500], [label |-> "Phone Connection Issue", confidence |-> 5000]>>]
  ELSE
  [label |-> None, confidence |-> 0, alternatives |-> <<>>]

\* app.py 2767-2778
error_keywords_multi == <<
  [error_type |-> "CPU Overheat",
   keywords |-> <<<<"c","p","u">>, <<"p","r","o","c","e","s","s","o","r">>, <<"o","v","e","r","h","e","a","t">>, <<"o","v","e","r","h","e","a","t","i","n","g">>, <<"t","h","e","r","m","a","l">>, <<"t","e","m","p","e","r","a","t","u","r","e">>, <<"h","o","t">>, <<"f","a","n">>>>],
  [error_type |-> "GPU Overheat",
   keywords |-> <<<<"g","p","u">>, <<"g","r","a","p","h","i","c","s">>, <<"o","v","e","r","h","e","a","t">>, <<"o","v","e","r","h","e","a","t","i","n","g">>, <<"t","h","e","r","m","a","l">>, <<"t","e","m","p","e","r","a","t","u","r","e">>, <<"h","o","t">>, <<"f","a","n">>>>],
  [error_type |-> "Slow Performance",
   keywords |-> <<<<"s","l","o","w">>, <<"l","a","g">>, <<"l","a","g","g","i","n","g">>, <<"s","l","u","g","g","i","s","h">>, <<"u","n","r","e","s","p","o","n","s","i","v","e">>, <<"p","e","r","f","o","r","m","a","n","c","e">>>>],
  [error_type |-> "RAM Upgrade",
   keywords |-> <<<<"r","a","m">>, <<"m","e","m","o","r","y">>, <<"i","n","s","u","f","f","i","c","i","e","n","t">>, <<"f","u","l","l">>, <<"n","o","t"," ","e","n","o","u","g","h">>>>],
  [error_type |-> "SSD Upgrade",
   keywords |-> <<<<"s","s","d">>, <<"s","t","o","r","a","g","e">>, <<"s","l","o","w"," ","b","o","o","t">>, <<"s","l","o","w"," ","l","o","a","d","i","n","g">>, <<"h","a","r","d"," ","d","r","i","v","e">>>>],
  [error_type |-> "PSU / Power Issue",
   keywords |-> <<<<"p","o","w","e","r">>, <<"p","s","u">>, <<"n","o","t"," ","t","u","r","n","i","n","g"," ","o","n">>, <<"n","o"," ","p","o","w","e","r">>, <<"d","e","a","d">>, <<"c","h","a","r","g","i","n","g">>>>],
  [error_type |-> "Windows Boot Failure",
   keywords |-> <<<<"b","o","o","t">>, <<"b","o","o","t","i","n","g">>, <<"n","o","t"," ","s","t","a","r","t","i","n","g">>, <<"s","t","a","r","t","u","p">>, <<"b","o","o","t"," ","f","a","i","l","u","r","e">>>>],
  [error_type |-> "No Display / No Signal",
   keywords |-> <<<<"n","o"," ","d","i","s","p","l","a","y">>, <<"n","o"," ","s","i","g","n","a","l">>, <<"b","l","a","c","k"," ","s","c","r","e","e","n">>, <<"b","l","a","n","k"," ","s","c","r","e","e","n">>, <<"m","o","n","i","t","o","r">>>>],
  [error_type |-> "Blue Screen (BSOD)",
   keywords |-> <<<<"b","l","u","e"," ","s","c","r","e","e","n">>, <<"b","s","o","d">>, <<"c","r","a","s","h">>, <<"f","r","e","e","z","e">>>>],
  [error_type |-> "Wi-Fi Adapter Upgrade",
   keywords |-> <<<<"w","i","f","i">>, <<"w","i","-","f","i">>, <<"i","n","t","e","r","n","e","t">>, <<"n","e","t","w","o","r","k">>, <<"c","o","n","n","e","c","t","i","o","n">>, <<"a","d","a","p","t","e","r">>>>]
>>


\* ------------------------------------------------------------------------
\* app.py, detect_error_type_hybrid: the keyword scan (lines 2780-2797)
\* ------------------------------------------------------------------------
\* min(a, b)
Min(a, b) == IF a < b THEN a ELSE b

\* detected_types: the error types with at least two keywords in
\* text_lower, at min(0.8, 0.4 + 0.1 * match_count), sorted by confidence
detected_types(text_lower) ==
  LET match_count(k) == count_in(error_keywords_multi[k].keywords, text_lower)
      hits == {k \in 1..Len(error_keywords_multi) : match_count(k) >= 2}
      scored == list([k \in 1..Len(error_keywords_multi) |->
                        [label |-> error_keywords_multi[k].error_type,
                         confidence |-> Min(8000, 4000 + match_count(k) * 1000)]])
  IN sort_by_confidence_desc(AtPositions(scored, hits))

\* multiple_types: the detections at 0.5 or more, at most three, when there
\* are two or more of them
multiple_types_of(detected) ==
  LET high_conf_types == SelectSeq(detected, LAMBDA dt : dt.confidence >= 5000)
  IN IF Len(high_conf_types) > 1 THEN Take(high_conf_types, 3) ELSE <<>>


\* ------------------------------------------------------------------------
\* Trained artifacts.  A classifier is known to the code only through
\* predict_proba and classes_: it is modelled by the labels it knows and by
\* the distribution it returns, which depends on the text alone (here
\* through the length of the text).  kind is "none" for an artifact that is
\* not loaded (Python's None), "throws" for one whose predict_proba raises.
\* ------------------------------------------------------------------------
NoModel == [kind |-> "none", classes |-> <<>>, table |-> <<>>]

ThrowingModel == [kind |-> "throws", classes |-> <<>>, table |-> <<>>]

\* an error-type classifier: sure of its answer on texts of even length,
\* unsure on texts of odd length
ErrorTypeModel ==
  [kind |-> "classifier",
   classes |-> <<"Blue Screen (BSOD)", "GPU Overheat", "Slow Performance", "Wi-Fi Adapter Upgrade">>,
   table |-> << <<500, 1500, 7200, 800>>,
                <<2500, 4500, 2000, 1000>> >>]

\* a flat product-need classifier over six components: unsure, with two
\* components tied, on texts of even length, sure on texts of odd length
FlatModel ==
  [kind |-> "classifier",
   classes |-> <<"CPU Upgrade", "GPU Upgrade", "PSU Upgrade", "RAM Upgrade", "SSD Upgrade", "Webcam Upgrade">>,
   table |-> << <<1000, 3000, 1000, 3000, 1500, 500>>,
                <<500, 500, 1000, 1000, 6500, 500>> >>]

\* a category classifier: rows for a sure answer, an unsure one, and a
\* category none of whose components the component classifier knows
CategoryModel ==
  [kind |-> "classifier",
   classes |-> <<"Display", "Network", "Performance", "Power">>,
   table |-> << <<300, 200, 9000, 500>>,
                <<1000, 1000, 5000, 3000>>,
                <<500, 7000, 1500, 1000>> >>]

\* a component classifier; in its third row the components of category
\* Performance all have probability 0, in its fourth two of them are tied
ComponentModel ==
  [kind |-> "classifier",
   classes |-> <<"CPU Upgrade", "GPU Upgrade", "PSU Upgrade", "RAM Upgrade", "SSD Upgrade", "Webcam Upgrade">>,
   table |-> << <<800, 1000, 500, 6400, 800, 500>>,
                <<1000, 2000, 2000, 3000, 1000, 1000>>,
                <<0, 5000, 3000, 0, 0, 2000>>,
                <<2500, 2500, 1000, 2500, 1000, 500>> >>]

\* the content of component_category_mapping.json: category -> components,
\* as the sequence of the items of the JSON object
CategoryMapping ==
  << [category |-> "Performance", components |-> <<"RAM Upgrade", "SSD Upgrade", "CPU Upgrade">>],
     [category |-> "Power", components |-> <<"PSU Upgrade">>],
     [category |-> "Display", components |-> <<"GPU Upgrade", "Monitor or GPU Check">>],
     [category |-> "Network", components |-> <<"WiFi Adapter Upgrade", "Router Upgrade">>] >>

\* model.predict_proba([text])[0] of a classifier that does not raise
predict_proba(model, txt) == model.table[(Len(txt) % Len(model.table)) + 1]

\* ------------------------------------------------------------------------
\* numpy
\* ------------------------------------------------------------------------
\* np.argsort(probs): the positions in ascending order of probability; equal
\* probabilities keep their order (numpy sorts arrays of at most 16 elements
\* by insertion)
argsort(probs) ==
  LET rank(i) == Cardinality({j \in 1..Len(probs) :
                    \/ probs[j] < probs[i]
                    \/ probs[j] = probs[i] /\ j < i})
  IN list([k \in 1..Len(probs) |-> CHOOSE i \in 1..Len(probs) : rank(i) = k - 1])

\* np.argmax(probs): the first position of the largest probability
argmax(probs) ==
  CHOOSE i \in 1..Len(probs) :
    /\ \A j \in 1..Len(probs) : probs[j] <= probs[i]
    /\ \A j \in 1..(i - 1) : probs[j] < probs[i]

\* sq[::-1]
Reverse(sq) == list([k \in 1..Len(sq) |-> sq[Len(sq) + 1 - k]])

\* sq[-n:]
Last(sq, n) == SubSeq(sq, IF Len(sq) > n THEN Len(sq) - n + 1 ELSE 1, Len(sq))

\* [(str(classes[i]), float(probs[i])) for i in indices]
labelled(classes, probs, indices) ==
  list([k \in 1..Len(indices) |->
          [label |-> classes[indices[k]], confidence |-> probs[indices[k]]]])

\* ------------------------------------------------------------------------
\* app.py: nlp_predict, detect_error_type_ml, predict_product_need
\* ------------------------------------------------------------------------
\* the value of `return None, 0.0, []`
NoPrediction == [best_label |-> None, best_confidence |-> 0, top3_list |-> <<>>]

\* nlp_predict(model, text): an exception of predict_proba is swallowed, and
\* a model that is no dict then counts as an unknown model type
nlp_predict(model, txt) ==
  IF model.kind = "none" THEN NoPrediction
  ELSE IF model.kind = "throws" THEN NoPrediction
  ELSE LET predictions == predict_proba(model, txt)
           top3_indices == Reverse(Last(argsort(predictions), 3))
       IN [best_label |-> model.classes[top3_indices[1]],
           best_confidence |-> predictions[top3_indices[1]],
           top3_list |-> labelled(model.classes, predictions, top3_indices)]

\* detect_error_type_ml(text), model being the global error_nlp_model
detect_error_type_ml(txt, model) ==
  IF model.kind = "none"
  THEN [label |-> None, confidence |-> 0, source |-> "none", alternatives |-> <<>>]
  ELSE LET p == nlp_predict(model, strip(txt))
       IN IF p.best_label = None
          THEN [label |-> None, confidence |-> 0, source |-> "none", alternatives |-> <<>>]
          ELSE IF p.best_confidence < 6000
          THEN [label |-> None, confidence |-> p.best_confidence,
                source |-> "ml_low_conf", alternatives |-> p.top3_list]
          ELSE [label |-> p.best_label, confidence |-> p.best_confidence,
                source |-> "ml", alternatives |-> p.top3_list]

\* predict_product_need(text), model being the global product_need_model
predict_product_need(txt, model) ==
  IF model.kind = "none" THEN NoPrediction
  ELSE IF model.kind = "throws" THEN NoPrediction
  ELSE LET probs == predict_proba(model, txt)
           idx_sorted == Reverse(argsort(probs))
           top3 == labelled(model.classes, probs, Take(idx_sorted, 3))
       IN [best_label |-> top3[1].label, best_confidence |-> top3[1].confidence,
           top3_list |-> top3]


\* ------------------------------------------------------------------------
\* hierarchical_inference.py.  The module's lazily loaded globals are a
\* record [category_model, component_model, category_mapping,
\* component_to_category]; the last two are [is_none, value], is_none for
\* Python's None.  The three files (the two .pkl and the .json) are records
\* [state, content]: state is "absent", "corrupt" (the file exists and
\* loading it raises) or "ok".
\* ------------------------------------------------------------------------
\* _category_model = _component_model = _category_mapping =
\* _component_to_category = None
NotLoaded ==
  [category_model |-> NoModel, component_model |-> NoModel,
   category_mapping |-> [is_none |-> TRUE, value |-> <<>>],
   component_to_category |-> [is_none |-> TRUE, value |-> <<>>]]

\* the reverse mapping built by _load_models: a later category of a
\* component overwrites an earlier one
reverse_mapping(category_mapping) ==
  LET comps == UNION {{category_mapping[k].components[c] :
                          c \in 1..Len(category_mapping[k].components)} :
                      k \in 1..Len(category_mapping)}
      holds(k, comp) == \E c \in 1..Len(category_mapping[k].components) :
                          category_mapping[k].components[c] = comp
      last(comp) == CHOOSE k \in 1..Len(category_mapping) :
                      /\ holds(k, comp)
                      /\ \A j \in (k + 1)..Len(category_mapping) : ~holds(j, comp)
  IN [comp \in comps |-> category_mapping[last(comp)].category]

\* the three loads of _load_models, on [raised, globals]: a file is loaded
\* when its global is None and it exists; joblib.load or json.load can raise,
\* which ends _load_models with what was loaded before in place
load_category_model(st, files) ==
  IF st.raised \/ st.globals.category_model.kind # "none" \/ files.category.state = "absent"
  THEN st
  ELSE IF files.category.state = "corrupt" THEN [st EXCEPT !.raised = TRUE]
  ELSE [st EXCEPT !.globals.category_model = files.category.content]

load_component_model(st, files) ==
  IF st.raised \/ st.globals.component_model.kind # "none" \/ files.component.state = "absent"
  THEN st
  ELSE IF files.component.state = "corrupt" THEN [st EXCEPT !.raised = TRUE]
  ELSE [st EXCEPT !.globals.component_model = files.component.content]

load_category_mapping(st, files) ==
  IF st.raised \/ ~st.globals.category_mapping.is_none \/ files.mapping.state = "absent"
  THEN st
  ELSE IF files.mapping.state = "corrupt" THEN [st EXCEPT !.raised = TRUE]
  ELSE [st EXCEPT !.globals.category_mapping = [is_none |-> FALSE, value |-> files.mapping.content],
                  !.globals.component_to_category =
                     [is_none |-> FALSE, value |-> reverse_mapping(files.mapping.content)]]

\* _load_models(): [raised, globals]
_load_models(globals, files) ==
  load_category_mapping(
    load_component_model(
      load_category_model([raised |-> FALSE, globals |-> globals], files), files), files)

\* the failure results of predict_hierarchical
no_opinion(failure_source) ==
  [comp |-> None, conf |-> 0, source |-> failure_source, top5 |-> <<>>, grouped |-> <<>>]

\* sum(filtered_probs)
RECURSIVE SumSeq(_)
SumSeq(sq) == IF sq = <<>> THEN 0 ELSE Head(sq) + SumSeq(Tail(sq))

\* category_mapping.get(predicted_category, [])
components_of(category_mapping, category) ==
  LET ks == {k \in 1..Len(category_mapping) : category_mapping[k].category = category}
  IN IF ks = {} THEN {}
     ELSE LET k == CHOOSE j \in ks : \A i \in ks : i <= j
          IN {category_mapping[k].components[c] : c \in 1..Len(category_mapping[k].components)}

\* a mutation of filter_positions: the classes are not filtered
filter_positions_unfiltered(comp_classes, category_components) == 1..Len(comp_classes)

\* the components of the predicted category among the classes of the
\* component model; all classes when there are none (lines 105-114)
filter_positions(comp_classes, category_components) ==
  LET kept == {i \in 1..Len(comp_classes) : comp_classes[i] \in category_components}
  IN IF kept = {} THEN 1..Len(comp_classes) ELSE kept

\* a mutation of normalize: the filtered probabilities are used as they are
normalize_unscaled(filtered_probs, total_prob) == filtered_probs

\* lines 116-121: the filtered probabilities renormalised, uniform when
\* they sum to 0
normalize(filtered_probs, total_prob) ==
  IF total_prob > 0
  THEN list([k \in 1..Len(filtered_probs) |-> (filtered_probs[k] * 10000) \div total_prob])
  ELSE list([k \in 1..Len(filtered_probs) |-> 10000 \div Len(filtered_probs)])

\* lines 123-141: the top component, its hierarchical confidence, the five
\* best alternatives and their grouping
top_component(cat_confidence, filtered_components, normalized_probs, component_to_category) ==
  LET top_idx == argmax(normalized_probs)
      top5_indices == Take(Reverse(argsort(normalized_probs)), 5)
  IN [comp |-> filtered_components[top_idx],
      conf |-> (cat_confidence * normalized_probs[top_idx]) \div 10000,
      source |-> "hierarchical_ml",
      top5 |-> labelled(filtered_components, normalized_probs, top5_indices),
      grouped |-> group_by_category(labelled(filtered_components, normalized_probs, top5_indices),
                                    component_to_category)]

\* stage 2 of predict_hierarchical (lines 92-141), for models that do not
\* raise; cat_idx is the position of the predicted category
filtered_stage(g, cat_confidence, comp_probs, positions) ==
  top_component(cat_confidence,
                AtPositions(g.component_model.classes, positions),
                normalize(AtPositions(comp_probs, positions),
                          SumSeq(AtPositions(comp_probs, positions))),
                g.component_to_category.value)

component_stage(txt, g, cat_probs) ==
  filtered_stage(g, cat_probs[argmax(cat_probs)], predict_proba(g.component_model, txt),
                 filter_positions(g.component_model.classes,
                                  components_of(g.category_mapping.value,
                                                g.category_model.classes[argmax(cat_probs)])))

\* predict_hierarchical after _load_models, on the globals g
predict_loaded(txt, g) ==
  IF g.category_model.kind = "none" \/ g.component_model.kind = "none"
  THEN no_opinion("models_not_loaded")
  ELSE IF g.category_mapping.is_none \/ g.component_to_category.is_none
  THEN no_opinion("mapping_not_loaded")
  ELSE IF g.category_model.kind = "throws"
  THEN no_opinion("category_prediction_failed")
  ELSE IF g.component_model.kind = "throws" \/ Len(g.component_model.classes) = 0
  THEN no_opinion("component_prediction_failed")
  ELSE component_stage(txt, g, predict_proba(g.category_model, txt))

\* what predict_hierarchical makes of the outcome of _load_models
after_load(txt, loaded) ==
  IF loaded.raised
  THEN [raised |-> TRUE, globals |-> loaded.globals, result |-> no_opinion("raised")]
  ELSE [raised |-> FALSE, globals |-> loaded.globals, result |-> predict_loaded(txt, loaded.globals)]

\* a mutation of predict_hierarchical: the call that loads the models
\* answers from the globals as they were before
predict_hierarchical_cold(txt, globals, files) ==
  [after_load(txt, _load_models(globals, files)) EXCEPT !.result = predict_loaded(txt, globals)]

\* predict_hierarchical(text, return_multiple=True): [raised, globals,
\* result]
predict_hierarchical(txt, globals, files) == after_load(txt, _load_models(globals, files))


\* ------------------------------------------------------------------------
\* feedback_storage.py.  The feedback file is [exists, rows]: rows are the
\* rows csv.writer has written, the header row among them.  A row is a record
\* of the seven columns; user_text and confidence are character tuples, the
\* other columns strings.
\* ------------------------------------------------------------------------
\* the file before the first write
NoFeedbackFile == [exists |-> FALSE, rows |-> <<>>]

\* the header row written to a new file (lines 47-55)
HeaderRow ==
  [timestamp |-> "timestamp",
   user_text |-> <<"u","s","e","r","_","t","e","x","t">>,
   predicted_label |-> "predicted_label",
   confidence |-> <<"c","o","n","f","i","d","e","n","c","e">>,
   user_correct_label |-> "user_correct_label",
   source |-> "source",
   needs_review |-> "needs_review"]

DigitChars == <<"0","1","2","3","4","5","6","7","8","9">>

\* f"{confidence:.4f}" of a confidence in 0.0 .. 9.9999
format_4f(confidence) ==
  << DigitChars[(confidence \div 10000) + 1], ".",
     DigitChars[((confidence \div 1000) % 10) + 1],
     DigitChars[((confidence \div 100) % 10) + 1],
     DigitChars[((confidence \div 10) % 10) + 1],
     DigitChars[(confidence % 10) + 1] >>

\* x or ""
or_empty(x) == IF x = None THEN "" ELSE x

\* str(b) of a bool
str_bool(b) == IF b THEN "True" ELSE "False"

\* the data row of save_feedback (lines 57-67); datetime.utcnow() is the
\* environment's and is not distinguished
feedback_row(txt, predicted_label, confidence, user_correct_label, source) ==
  LET needs_review == user_correct_label # None /\ user_correct_label # predicted_label
  IN [timestamp |-> "utcnow",
      user_text |-> txt,
      predicted_label |-> or_empty(predicted_label),
      confidence |-> format_4f(confidence),
      user_correct_label |-> or_empty(user_correct_label),
      source |-> source,
      needs_review |-> str_bool(needs_review)]

\* the places where the file system can fail save_feedback: creating the
\* directory, opening the file, writing the header row, writing the data row
WriteFaults == {"mkdir", "open", "header", "row"}

\* a mutation of save_feedback: the exception of a failed write is not
\* caught
save_feedback_uncaught(csv, txt, predicted_label, confidence, user_correct_label, source, fault) ==
  LET opened == [exists |-> TRUE, rows |-> csv.rows]
      headed == IF csv.exists THEN opened
                ELSE [opened EXCEPT !.rows = Append(@, HeaderRow)]
      row == feedback_row(txt, predicted_label, confidence, user_correct_label, source)
  IN IF fault \in {"mkdir", "open"}
     THEN [returned |-> FALSE, raised |-> TRUE, csv |-> csv]
     ELSE IF fault = "header" /\ ~csv.exists
     THEN [returned |-> FALSE, raised |-> TRUE, csv |-> opened]
     ELSE IF fault = "row"
     THEN [returned |-> FALSE, raised |-> TRUE, csv |-> headed]
     ELSE [returned |-> TRUE, raised |-> FALSE,
           csv |-> [headed EXCEPT !.rows = Append(@, row)]]

\* save_feedback(text, predicted_label, confidence, user_correct_label,
\* source) on the file csv, with the file system failing at fault ("none":
\* nowhere): [returned, raised, csv].  Opening in mode "a" creates the file;
\* a header that is not due cannot fail.
save_feedback(csv, txt, predicted_label, confidence, user_correct_label, source, fault) ==
  LET file_exists == csv.exists
      opened == [exists |-> TRUE, rows |-> csv.rows]
      headed == IF file_exists THEN opened
                ELSE [opened EXCEPT !.rows = Append(@, HeaderRow)]
      row == feedback_row(txt, predicted_label, confidence, user_correct_label, source)
  IN IF fault \in {"mkdir", "open"}
     THEN [returned |-> FALSE, raised |-> FALSE, csv |-> csv]
     ELSE IF fault = "header" /\ ~file_exists
     THEN [returned |-> FALSE, raised |-> FALSE, csv |-> opened]
     ELSE IF fault = "row"
     THEN [returned |-> FALSE, raised |-> FALSE, csv |-> headed]
     ELSE [returned |-> TRUE, raised |-> FALSE,
           csv |-> [headed EXCEPT !.rows = Append(@, row)]]

\* ------------------------------------------------------------------------
\* Requests
\* ------------------------------------------------------------------------
\* '': the empty text
EmptyText == <<>>

\* '   ': a text of white space only
BlankText == <<" "," "," ">>

\* '  NO POWER  ': upper case and padded; RULES 3 'no power', and a 0.95 error-type rule
NoPowerText == <<" "," ","N","O"," ","P","O","W","E","R"," "," ">>

\* 'pc slow': RULES 4 'pc slow'; error type: only the generic 0.4 rule
PcSlowText == <<"p","c"," ","s","l","o","w">>

\* 'memory full': no rule; two keywords of RAM Upgrade; related components of 'full'
MemoryFullText == <<"m","e","m","o","r","y"," ","f","u","l","l">>

\* 'hello there!': no rule and no keyword; length 12
HelloThereText == <<"h","e","l","l","o"," ","t","h","e","r","e","!">>

\* 'need help': no rule and no keyword; length 9
NeedHelpText == <<"n","e","e","d"," ","h","e","l","p">>

\* 'xyz unrelated gibberish': no rule and no keyword; length 23
GibberishText == <<"x","y","z"," ","u","n","r","e","l","a","t","e","d"," ","g","i","b","b","e","r","i","s","h">>

\* 'audio crackling': error type: the 0.7 General Repair rule
AudioText == <<"a","u","d","i","o"," ","c","r","a","c","k","l","i","n","g">>

\* 'keeps rebooting': error type: a 0.75 rule of detect_error_type_rules only
RebootingText == <<"k","e","e","p","s"," ","r","e","b","o","o","t","i","n","g">>

\* 'overheat black screen': no rule; five related components of 'overheat' and 'black screen'; length 21
OverheatText == <<"o","v","e","r","h","e","a","t"," ","b","l","a","c","k"," ","s","c","r","e","e","n">>

\* the texts of the requests
Texts ==
  {EmptyText, BlankText, NoPowerText, PcSlowText,
   MemoryFullText, HelloThereText, NeedHelpText, GibberishText,
   AudioText, RebootingText, OverheatText}


\* ------------------------------------------------------------------------
\* The text-matching functions on the texts of the requests, computed once:
\* each table below is the function of the same name restricted to those
\* texts, and each cached_ operator is that function, read from the table
\* where the table has the text.
\* ------------------------------------------------------------------------
\* text.strip() of the texts of the requests
StrippedTexts == {strip(t) : t \in Texts}

match_rule_memo == [t \in StrippedTexts |-> match_rule(t)] @@ <<>>

rule_based_error_type_memo == [t \in StrippedTexts |-> rule_based_error_type(t)] @@ <<>>

detect_error_type_rules_memo == [t \in StrippedTexts |-> detect_error_type_rules(t)] @@ <<>>

detected_types_memo == [t \in {lower(x) : x \in Texts} |-> detected_types(t)] @@ <<>>

\* the labels a prediction of the models can carry
PredictedLabels ==
  {FlatModel.classes[k] : k \in 1..Len(FlatModel.classes)}
  \cup {ComponentModel.classes[k] : k \in 1..Len(ComponentModel.classes)}

get_related_components_memo ==
  [p \in StrippedTexts \X PredictedLabels |-> get_related_components(p[1], p[2])] @@ <<>>

cached_match_rule(txt) ==
  IF txt \in DOMAIN match_rule_memo THEN match_rule_memo[txt] ELSE match_rule(txt)

cached_rule_based_error_type(txt) ==
  IF txt \in DOMAIN rule_based_error_type_memo
  THEN rule_based_error_type_memo[txt] ELSE rule_based_error_type(txt)

cached_detect_error_type_rules(txt) ==
  IF txt \in DOMAIN detect_error_type_rules_memo
  THEN detect_error_type_rules_memo[txt] ELSE detect_error_type_rules(txt)

cached_detected_types(text_lower) ==
  IF text_lower \in DOMAIN detected_types_memo
  THEN detected_types_memo[text_lower] ELSE detected_types(text_lower)

cached_get_related_components(txt, primary_component) ==
  IF <<txt, primary_component>> \in DOMAIN get_related_components_memo
  THEN get_related_components_memo[<<txt, primary_component>>]
  ELSE get_related_components(txt, primary_component)

\* ------------------------------------------------------------------------
\* app.py: detect_error_type_hybrid
\* ------------------------------------------------------------------------
\* a result dict of detect_error_type_hybrid
hybrid_result(label, confidence, source, alternatives, multiple_types) ==
  [label |-> label, confidence |-> confidence, source |-> source,
   alternatives |-> alternatives, multiple_types |-> multiple_types]

\* a mutation of fallback_steps: there is no final fallback
fallback_steps_no_default(detected, multiple_types) ==
  IF detected # <<>>
  THEN hybrid_result(detected[1].label, detected[1].confidence, "fallback",
                     IF Len(detected) > 1 THEN SubSeq(detected, 2, Min(4, Len(detected)))
                                          ELSE <<>>,
                     multiple_types)
  ELSE hybrid_result(None, 0, "none", <<>>, <<>>)

\* STEP 7 and STEP 8 (lines 2858-2878): the first detected type, or the
\* final fallback
fallback_steps(detected, multiple_types) ==
  IF detected # <<>>
  THEN hybrid_result(detected[1].label, detected[1].confidence, "fallback",
                     IF Len(detected) > 1 THEN SubSeq(detected, 2, Min(4, Len(detected)))
                                          ELSE <<>>,
                     multiple_types)
  ELSE hybrid_result("General Repair", 3000, "fallback", <<>>, <<>>)

\* a mutation of low_confidence_steps: the result of the ML model is
\* returned before the rule is looked at
low_confidence_steps_ml_first(rule, ml_result, detected, multiple_types) ==
  IF ml_result.source # "none"
  THEN hybrid_result(ml_result.label, ml_result.confidence, ml_result.source,
                     ml_result.alternatives, multiple_types)
  ELSE IF rule.label # None
  THEN hybrid_result(rule.label, rule.confidence, "rule", <<>>, multiple_types)
  ELSE fallback_steps(detected, multiple_types)

\* STEP 4 to STEP 8 (lines 2830-2878), taken when the ML model gave no label
\* at 0.6 or more: the rule whatever its confidence (STEP 4, and STEP 6), the
\* result of the ML model when it predicted (STEP 5), the fallbacks
low_confidence_steps(rule, ml_result, detected, multiple_types) ==
  IF rule.label # None
  THEN hybrid_result(rule.label, rule.confidence, "rule", <<>>, multiple_types)
  ELSE IF ml_result.source # "none"
  THEN hybrid_result(ml_result.label, ml_result.confidence, ml_result.source,
                     ml_result.alternatives, multiple_types)
  ELSE fallback_steps(detected, multiple_types)

\* STEP 1 to STEP 3 (lines 2799-2828) on what the matchers and the ML model
\* gave: [result, invoked], invoked being the stages the call ran
hybrid_steps(rule, legacy, ml_result, detected, multiple_types) ==
  IF rule.label # None /\ rule.confidence >= 8000
  THEN [result |-> hybrid_result(rule.label, rule.confidence, "rule", <<>>, multiple_types),
        invoked |-> {"rule_based_error_type"}]
  ELSE IF legacy.label # None /\ legacy.confidence >= 7000
  THEN [result |-> hybrid_result(legacy.label, legacy.confidence, "rules",
                                 legacy.alternatives, multiple_types),
        invoked |-> {"rule_based_error_type", "detect_error_type_rules"}]
  ELSE IF ml_result.label # None /\ ml_result.confidence >= 6000
  THEN [result |-> hybrid_result(ml_result.label, ml_result.confidence, ml_result.source,
                                 ml_result.alternatives, multiple_types),
        invoked |-> {"rule_based_error_type", "detect_error_type_rules", "detect_error_type_ml"}]
  ELSE [result |-> low_confidence_steps(rule, ml_result, detected, multiple_types),
        invoked |-> {"rule_based_error_type", "detect_error_type_rules", "detect_error_type_ml"}]

\* a mutation of detect_error_type_hybrid: a text of white space goes
\* through the steps
detect_error_type_hybrid_unchecked(txt, model) ==
  hybrid_steps(cached_rule_based_error_type(strip(txt)),
               cached_detect_error_type_rules(strip(txt)),
               detect_error_type_ml(strip(txt), model),
               cached_detected_types(lower(txt)),
               multiple_types_of(cached_detected_types(lower(txt))))

\* detect_error_type_hybrid(text), reading the global error_nlp_model:
\* [result, invoked].  The keyword scan reads text.lower(), the matchers and
\* the ML model text.strip().  nlp_predict swallows every exception of the
\* model, so the two except branches around detect_error_type_ml are never
\* taken.
detect_error_type_hybrid(txt, model) ==
  IF txt = <<>> \/ strip(txt) = <<>>
  THEN [result |-> hybrid_result("General Repair", 0, "fallback", <<>>, <<>>),
        invoked |-> {}]
  ELSE hybrid_steps(cached_rule_based_error_type(strip(txt)),
                    cached_detect_error_type_rules(strip(txt)),
                    detect_error_type_ml(strip(txt), model),
                    cached_detected_types(lower(txt)),
                    multiple_types_of(cached_detected_types(lower(txt))))


\* ------------------------------------------------------------------------
\* app.py: product_need_recommend
\* ------------------------------------------------------------------------
\* ProductNeedAlternative(label=..., confidence=..., explanation=...)
ProductNeedAlternative(label, confidence, explanation) ==
  [label |-> label, confidence |-> confidence, explanation |-> explanation]

\* [ProductNeedAlternative(label=label, confidence=conf) for label, conf in pairs]
as_alternatives(pairs) ==
  list([k \in 1..Len(pairs) |->
          ProductNeedAlternative(pairs[k].label, pairs[k].confidence, None)])

\* raise HTTPException(status_code=...)
HTTPException(status_code) ==
  [raised |-> TRUE, status_code |-> status_code, component |-> None, confidence |-> 0,
   alternatives |-> <<>>, is_low_confidence |-> FALSE, source |-> None,
   ask_feedback |-> FALSE, grouped_by_category |-> <<>>]

\* ProductNeedResponse(...): the fields the cascade decides (the texts looked
\* up for the component are left out; a grouped_by_category of None is <<>>)
ProductNeedResponse(component, confidence, alternatives, is_low_confidence, source, ask_feedback, grouped_by_category) ==
  [raised |-> FALSE, status_code |-> 200, component |-> component, confidence |-> confidence,
   alternatives |-> alternatives, is_low_confidence |-> is_low_confidence, source |-> source,
   ask_feedback |-> ask_feedback, grouped_by_category |-> grouped_by_category]

\* LOW_CONF_THRESHOLD (line 3096): LOW_CONFIDENCE_THRESHOLD of
\* feedback_storage.py, and 0.5 when the import failed
LOW_CONFIDENCE_THRESHOLD == 5000

MEDIUM_CONF_THRESHOLD == 4000

\* what a stage of product_need_recommend leaves behind: the label (None:
\* no prediction yet), its confidence and source, the alternatives and the
\* grouping
Undecided ==
  [final_label |-> None, final_conf |-> 0, source |-> "none",
   alternatives_list |-> <<>>, grouped |-> <<>>]

\* STAGE 1 (lines 3107-3130), rule_result being the match
rule_stage(rule_result) ==
  IF ~rule_result.matched THEN Undecided
  ELSE LET related_components == Take(rule_result.related, 4)
       IN [final_label |-> rule_result.component,
           final_conf |-> rule_result.confidence,
           source |-> "rule",
           alternatives_list |->
             <<ProductNeedAlternative(rule_result.component, rule_result.confidence,
                                      rule_result.explanation)>>
             \o [k \in 1..Len(related_components) |->
                   ProductNeedAlternative(related_components[k],
                                          (rule_result.confidence * 8) \div 10, None)],
           grouped |-> <<>>]

\* a mutation of hierarchical_stage: a prediction below 0.6 is not accepted
hierarchical_stage_thresholded(txt, ph, component_to_category) ==
  IF ph.raised \/ ph.result.comp = None \/ ph.result.conf < 6000 THEN Undecided
  ELSE LET related == cached_get_related_components(txt, ph.result.comp)
           top5 == Take(sort_by_confidence_desc(unique_by_label(ph.result.top5 \o related)), 5)
       IN [final_label |-> ph.result.comp, final_conf |-> ph.result.conf,
           source |-> ph.result.source, alternatives_list |-> as_alternatives(top5),
           grouped |-> IF ph.result.grouped # <<>>
                       THEN group_by_category(top5, component_to_category) ELSE <<>>]

\* STAGE 2 (lines 3136-3195), ph being what predict_hierarchical returned or
\* raised: a component is accepted whatever its confidence
hierarchical_stage(txt, ph, component_to_category) ==
  IF ph.raised \/ ph.result.comp = None THEN Undecided
  ELSE LET related == cached_get_related_components(txt, ph.result.comp)
           all_components == ph.result.top5 \o related
           unique_components == sort_by_confidence_desc(unique_by_label(all_components))
           top5 == Take(unique_components, 5)
       IN [final_label |-> ph.result.comp,
           final_conf |-> ph.result.conf,
           source |-> ph.result.source,
           alternatives_list |-> as_alternatives(top5),
           grouped |-> IF ph.result.grouped # <<>>
                       THEN group_by_category(top5, component_to_category)
                       ELSE <<>>]

\* STAGE 3 (lines 3200-3224), model being product_need_model
flat_stage(txt, model) ==
  LET p == predict_product_need(txt, model)
  IN IF p.best_label = None THEN Undecided
     ELSE LET probs == predict_proba(model, txt)
              idx_sorted == Reverse(argsort(probs))
              top5 == labelled(model.classes, probs, Take(idx_sorted, 5))
          IN [final_label |-> p.best_label, final_conf |-> p.best_confidence,
              source |-> "ml", alternatives_list |-> as_alternatives(top5),
              grouped |-> <<>>]

\* a mutation of no_prediction_response: the missing label is given a
\* confidence
no_prediction_response_guess ==
  ProductNeedResponse(None, 3000, <<>>, TRUE, "none", TRUE, <<>>)

\* the response of the no-prediction case (lines 3229-3245)
no_prediction_response ==
  ProductNeedResponse(None, 0, <<>>, TRUE, "none", TRUE, <<>>)

\* a mutation of with_primary: the alternatives are not cut to five after
\* the primary is put in
with_primary_untruncated(final_label, final_conf, alternatives_list) ==
  IF \E k \in 1..Len(alternatives_list) : alternatives_list[k].label = final_label
  THEN alternatives_list
  ELSE <<ProductNeedAlternative(final_label, final_conf, None)>> \o alternatives_list

\* lines 3251-3256: the primary is put first when the alternatives lack
\* it, and five alternatives are kept
with_primary(final_label, final_conf, alternatives_list) ==
  Take(IF \E k \in 1..Len(alternatives_list) : alternatives_list[k].label = final_label
       THEN alternatives_list
       ELSE <<ProductNeedAlternative(final_label, final_conf, None)>> \o alternatives_list,
       5)

\* The cascade is carried from stage to stage as [decision, invoked,
\* globals]: what the stages so far decided, the stages that ran, and the
\* globals of hierarchical_inference.
\* after STAGE 1; match_rule is None when the import failed
after_rules(txt, available, globals) ==
  [decision |-> IF available THEN rule_stage(cached_match_rule(txt)) ELSE Undecided,
   invoked |-> IF available THEN {"match_rule"} ELSE {},
   globals |-> globals]

\* STAGE 2 ran and predict_hierarchical gave ph
hierarchical_ran(txt, c, ph) ==
  [decision |-> hierarchical_stage(txt, ph, ph.globals.component_to_category.value),
   invoked |-> c.invoked \cup {"predict_hierarchical"},
   globals |-> ph.globals]

\* a mutation of after_hierarchical: STAGE 2 also runs after a rule matched
after_hierarchical_always(txt, available, files, c) ==
  IF available
  THEN hierarchical_ran(txt, c, predict_hierarchical(txt, c.globals, files))
  ELSE c

\* after STAGE 2, which runs `if not final_label and HIERARCHICAL_AVAILABLE
\* and predict_hierarchical`
after_hierarchical(txt, available, files, c) ==
  IF c.decision.final_label = None /\ available
  THEN hierarchical_ran(txt, c, predict_hierarchical(txt, c.globals, files))
  ELSE c

\* after STAGE 3, which runs `if not final_label and product_need_model
\* is not None`
after_flat(txt, model, c) ==
  IF c.decision.final_label = None /\ model.kind # "none"
  THEN [c EXCEPT !.decision = flat_stage(txt, model),
                 !.invoked = @ \cup {"predict_product_need"}]
  ELSE c

\* a mutation of respond_saved: a write that failed fails the call
respond_saved_strict(c, csv, saving, sv) ==
  IF saving /\ (sv.raised \/ ~sv.returned)
  THEN [response |-> HTTPException(500), globals |-> c.globals, csv |-> sv.csv,
        invoked |-> c.invoked \cup {"save_feedback"}, saved |-> "raised"]
  ELSE [response |->
          ProductNeedResponse(c.decision.final_label, c.decision.final_conf,
                              with_primary(c.decision.final_label, c.decision.final_conf,
                                           c.decision.alternatives_list),
                              c.decision.final_conf < MEDIUM_CONF_THRESHOLD,
                              c.decision.source,
                              c.decision.final_conf < LOW_CONFIDENCE_THRESHOLD,
                              c.decision.grouped),
        globals |-> c.globals,
        csv |-> IF saving THEN sv.csv ELSE csv,
        invoked |-> IF saving THEN c.invoked \cup {"save_feedback"} ELSE c.invoked,
        saved |-> IF saving THEN "True" ELSE "not called"]

\* lines 3261-3326 for the prediction of c, sv being the outcome of
\* save_feedback where it is called (saving); an exception of save_feedback
\* would leave the handler
respond_saved(c, csv, saving, sv) ==
  IF saving /\ sv.raised
  THEN [response |-> HTTPException(500), globals |-> c.globals, csv |-> sv.csv,
        invoked |-> c.invoked \cup {"save_feedback"}, saved |-> "raised"]
  ELSE [response |->
          ProductNeedResponse(c.decision.final_label, c.decision.final_conf,
                              with_primary(c.decision.final_label, c.decision.final_conf,
                                           c.decision.alternatives_list),
                              c.decision.final_conf < MEDIUM_CONF_THRESHOLD,
                              c.decision.source,
                              c.decision.final_conf < LOW_CONFIDENCE_THRESHOLD,
                              c.decision.grouped),
        globals |-> c.globals,
        csv |-> IF saving THEN sv.csv ELSE csv,
        invoked |-> IF saving THEN c.invoked \cup {"save_feedback"} ELSE c.invoked,
        saved |-> IF saving THEN str_bool(sv.returned) ELSE "not called"]

\* a mutation of respond: save_feedback is not called
respond_without_saving(txt, available, csv, fault, c) ==
  IF c.decision.final_label = None
  THEN [response |-> no_prediction_response, globals |-> c.globals, csv |-> csv,
        invoked |-> c.invoked, saved |-> "not called"]
  ELSE respond_saved(c, csv, FALSE,
                     save_feedback(csv, txt, c.decision.final_label, c.decision.final_conf,
                                   None, c.decision.source, fault))

\* lines 3229-3326: the response to the outcome c of the cascade;
\* save_feedback is None when the import failed
respond(txt, available, csv, fault, c) ==
  IF c.decision.final_label = None
  THEN [response |-> no_prediction_response, globals |-> c.globals, csv |-> csv,
        invoked |-> c.invoked, saved |-> "not called"]
  ELSE respond_saved(c, csv,
                     c.decision.final_conf < LOW_CONFIDENCE_THRESHOLD /\ available,
                     save_feedback(csv, txt, c.decision.final_label, c.decision.final_conf,
                                   None, c.decision.source, fault))

\* product_need_recommend(req) for req.text = raw.  available is
\* HIERARCHICAL_AVAILABLE (match_rule, predict_hierarchical and
\* save_feedback are None without it), model is product_need_model, globals
\* and files are those of hierarchical_inference, csv is the feedback file
\* and fault the place where the file system fails a write.  The value is
\* [response, globals, csv, invoked, saved]: the response or HTTPException,
\* the globals and the file after the call, the stages the call ran, and
\* what save_feedback returned ("not called" when it was not called).
product_need_recommend(raw, available, model, globals, files, csv, fault) ==
  IF strip(raw) = <<>>
  THEN [response |-> HTTPException(400), globals |-> globals, csv |-> csv,
        invoked |-> {}, saved |-> "not called"]
  ELSE respond(strip(raw), available, csv, fault,
               after_flat(strip(raw), model,
                 after_hierarchical(strip(raw), available, files,
                   after_rules(strip(raw), available, globals))))


\* ------------------------------------------------------------------------
\* The processes next to the request handlers: the calls of save_feedback
\* that run concurrently (the server runs its handlers on a thread pool),
\* and the run of retrain_with_feedback.py
\* ------------------------------------------------------------------------
\* the number of concurrent calls of save_feedback
NumWriters == 2

Writers == 1..NumWriters

\* a call of save_feedback that has not started: pc is the statement it is
\* at, file_exists its local variable, buffer the rows csv.writer has handed
\* to the file object and that are not yet written to the file
IdleWriter ==
  [pc |-> "idle", user_correct_label |-> None, file_exists |-> FALSE, buffer |-> <<>>,
   returned |-> None]

NoneInFlight == [w \in Writers |-> IdleWriter]

\* a model file that has no backup copy
NoBackup == [state |-> "none", content |-> NoModel]

\* retrain_with_feedback.py is not running: pc is the statement the run is
\* at, previous the active model files when the run started, backups the
\* copies backup_models has made in this run, failed_at the statement that
\* raised, df the data frame of the run, split the rows handed to
\* train_test_split for each model and fitted the rows each model was fitted
\* on
NoRetrain ==
  [pc |-> "not running",
   previous |-> [category |-> NoBackup, component |-> NoBackup],
   backups |-> [category |-> NoBackup, component |-> NoBackup],
   failed_at |-> "nowhere",
   df |-> <<>>,
   split |-> [category |-> <<>>, component |-> <<>>],
   fitted |-> [category |-> <<>>, component |-> <<>>]]
\* ------------------------------------------------------------------------
\* The service as a state machine
\* ------------------------------------------------------------------------
\* the number of data rows the feedback file may hold
MaxFeedbackRows == 1

\* the data rows of the feedback file
data_rows(csv) == SelectSeq(csv.rows, LAMBDA r : r # HeaderRow)

\* a .pkl or .json file that does not exist
AbsentFile(empty) == [state |-> "absent", content |-> empty]

\* a file that exists and whose load raises
CorruptFile(empty) == [state |-> "corrupt", content |-> empty]

\* a file that loads to content
FileOf(content) == [state |-> "ok", content |-> content]

\* no file of hierarchical_inference exists
NoModelFiles ==
  [category |-> AbsentFile(NoModel), component |-> AbsentFile(NoModel),
   mapping |-> AbsentFile(<<>>)]

\* the call the service has not yet answered
NoCall ==
  [op |-> "none", text |-> <<>>, response |-> <<>>, invoked |-> {}, saved |-> "not called"]

\* The state after import.  app.py lines 20-32: the import of rules,
\* hierarchical_inference and feedback_storage succeeded or not; lines
\* 216-293: the two models loaded at import are None when their file is
\* missing or does not load; the files of hierarchical_inference are there or
\* not (they are not read when the import failed); nothing is loaded lazily
\* yet and there is no feedback file.
Init ==
  /\ HIERARCHICAL_AVAILABLE \in BOOLEAN
  /\ error_nlp_model \in {NoModel, ThrowingModel, ErrorTypeModel}
  /\ product_need_model \in {NoModel, ThrowingModel, FlatModel}
  /\ model_files \in
       [category : {AbsentFile(NoModel), CorruptFile(NoModel), FileOf(ThrowingModel), FileOf(CategoryModel)},
        component : {AbsentFile(NoModel), CorruptFile(NoModel), FileOf(ThrowingModel), FileOf(ComponentModel)},
        mapping : {AbsentFile(<<>>), FileOf(CategoryMapping)}]
  /\ ~HIERARCHICAL_AVAILABLE => model_files = NoModelFiles
  /\ hierarchical_globals = NotLoaded
  /\ feedback_csv = NoFeedbackFile
  /\ call = NoCall
  /\ in_flight = NoneInFlight
  /\ retrain = NoRetrain

\* the service answers product_need_recommend(raw) with r
answer_product_need(raw, r) ==
  /\ Len(data_rows(r.csv)) <= MaxFeedbackRows
  /\ call' = [op |-> "product_need_recommend", text |-> raw, response |-> r.response,
              invoked |-> r.invoked, saved |-> r.saved]
  /\ hierarchical_globals' = r.globals
  /\ feedback_csv' = r.csv
  /\ UNCHANGED <<HIERARCHICAL_AVAILABLE, error_nlp_model, product_need_model, model_files,
                 in_flight, retrain>>

\* product_need_recommend(raw), written being the call on a file system
\* that does not fail: a call that writes can be failed at any place
product_need_call(raw, written) ==
  \E fault \in (IF written.saved = "not called" THEN {"none"} ELSE {"none"} \cup WriteFaults) :
    answer_product_need(raw,
      IF fault = "none" THEN written
      ELSE product_need_recommend(raw, HIERARCHICAL_AVAILABLE, product_need_model,
                                  hierarchical_globals, model_files, feedback_csv, fault))

\* POST /product_need_recommend with a text
ProductNeedRecommend ==
  \E raw \in Texts :
    product_need_call(raw,
      product_need_recommend(raw, HIERARCHICAL_AVAILABLE, product_need_model,
                             hierarchical_globals, model_files, feedback_csv, "none"))

\* a call of detect_error_type_hybrid with a text (POST /detect_error_type)
DetectErrorType ==
  \E raw \in Texts :
    LET r == detect_error_type_hybrid(raw, error_nlp_model)
    IN /\ call' = [op |-> "detect_error_type_hybrid", text |-> raw, response |-> r.result,
                   invoked |-> r.invoked, saved |-> "not called"]
       /\ UNCHANGED <<HIERARCHICAL_AVAILABLE, error_nlp_model, product_need_model, model_files,
                      hierarchical_globals, feedback_csv, in_flight, retrain>>

Next == ProductNeedRecommend \/ DetectErrorType

Spec == Init /\ [][Next]_vars


\* ------------------------------------------------------------------------
\* app.py: product_need_feedback, and the feedback store under the three
\* online operations that write it
\* ------------------------------------------------------------------------
\* get_feedback_count(): len(pd.read_csv(FEEDBACK_CSV)), the first line of
\* the file being the header of the frame; 0 when the file is missing or
\* cannot be read (read_csv raises on an empty file)
get_feedback_count(csv) == IF Len(csv.rows) = 0 THEN 0 ELSE Len(csv.rows) - 1

\* a mutation of product_need_feedback: the correction is written into the
\* record logged for the text, which is read, modified and written back
product_need_feedback_rewriting(req, available, csv, fault) ==
  LET logged == {i \in 1..Len(csv.rows) : csv.rows[i].user_text = req.text}
      rewritten == [csv EXCEPT !.rows = [i \in 1..Len(csv.rows) |->
                      IF i \in logged
                      THEN [csv.rows[i] EXCEPT !.user_correct_label = or_empty(req.user_correct_label)]
                      ELSE csv.rows[i]]]
  IN IF ~available
     THEN [response |-> [raised |-> TRUE, status_code |-> 503, success |-> FALSE, feedback_count |-> 0],
           csv |-> csv, saved |-> "not called"]
     ELSE [response |-> [raised |-> FALSE, status_code |-> 200, success |-> TRUE,
                         feedback_count |-> get_feedback_count(rewritten)],
           csv |-> rewritten, saved |-> "True"]

\* product_need_feedback(req): [response, csv, saved]; 503 without
\* save_feedback, 500 when it returns False
product_need_feedback(req, available, csv, fault) ==
  LET sv == save_feedback(csv, req.text, req.predicted_label, req.confidence,
                          req.user_correct_label, req.source, fault)
  IN IF ~available
     THEN [response |-> [raised |-> TRUE, status_code |-> 503, success |-> FALSE, feedback_count |-> 0],
           csv |-> csv, saved |-> "not called"]
     ELSE IF sv.raised
     THEN [response |-> [raised |-> TRUE, status_code |-> 500, success |-> FALSE, feedback_count |-> 0],
           csv |-> sv.csv, saved |-> "raised"]
     ELSE IF sv.returned
     THEN [response |-> [raised |-> FALSE, status_code |-> 200, success |-> TRUE,
                         feedback_count |-> get_feedback_count(sv.csv)],
           csv |-> sv.csv, saved |-> "True"]
     ELSE [response |-> [raised |-> TRUE, status_code |-> 500, success |-> FALSE, feedback_count |-> 0],
           csv |-> sv.csv, saved |-> "False"]

\* the number of data rows the feedback file may hold when feedback is
\* submitted
MaxSubmittedRows == 2

\* ProductNeedFeedbackRequest: a prediction, or none, with no correction, an
\* empty one, one that agrees and one that differs
FeedbackRequests ==
  {[text |-> GibberishText, predicted_label |-> p[1], confidence |-> 1750,
    user_correct_label |-> p[2], source |-> "hierarchical_ml"] :
      p \in {<<"CPU Upgrade", None>>, <<"CPU Upgrade", "">>, <<"CPU Upgrade", "CPU Upgrade">>,
             <<"CPU Upgrade", "SSD Upgrade">>, <<None, None>>, <<None, "">>,
             <<None, "SSD Upgrade">>}}

\* the texts of the recommendations asked for while feedback is submitted
FeedbackTexts == {NeedHelpText, PcSlowText, GibberishText}

\* the service with all its models or with none of its optional modules
FeedbackInit ==
  /\ HIERARCHICAL_AVAILABLE \in BOOLEAN
  /\ error_nlp_model = NoModel
  /\ product_need_model = FlatModel
  /\ model_files = IF HIERARCHICAL_AVAILABLE
                   THEN [category |-> FileOf(CategoryModel), component |-> FileOf(ComponentModel),
                         mapping |-> FileOf(CategoryMapping)]
                   ELSE NoModelFiles
  /\ hierarchical_globals = NotLoaded
  /\ feedback_csv = NoFeedbackFile
  /\ call = NoCall
  /\ in_flight = NoneInFlight
  /\ retrain = NoRetrain

\* POST /product_need_recommend with a text, the write failing or not
RecommendAndLog ==
  \E raw \in FeedbackTexts, fault \in {"none", "row"} :
    LET r == product_need_recommend(raw, HIERARCHICAL_AVAILABLE, product_need_model,
                                    hierarchical_globals, model_files, feedback_csv, fault)
    IN /\ Len(data_rows(r.csv)) <= MaxSubmittedRows
       /\ call' = [op |-> "product_need_recommend", text |-> raw, response |-> r.response,
                   invoked |-> r.invoked, saved |-> r.saved]
       /\ hierarchical_globals' = r.globals
       /\ feedback_csv' = r.csv
       /\ UNCHANGED <<HIERARCHICAL_AVAILABLE, error_nlp_model, product_need_model, model_files,
                      in_flight, retrain>>

\* POST /product_need_feedback with a request, the write failing or not
ProductNeedFeedback ==
  \E req \in FeedbackRequests, fault \in {"none", "open"} :
    LET r == product_need_feedback(req, HIERARCHICAL_AVAILABLE, feedback_csv, fault)
    IN /\ Len(data_rows(r.csv)) <= MaxSubmittedRows
       /\ call' = [op |-> "product_need_feedback", request |-> req, response |-> r.response,
                   saved |-> r.saved]
       /\ feedback_csv' = r.csv
       /\ UNCHANGED <<HIERARCHICAL_AVAILABLE, error_nlp_model, product_need_model, model_files,
                      hierarchical_globals, in_flight, retrain>>

\* a call of save_feedback with the arguments of a request, the file system
\* failing at any place or nowhere
SaveFeedback ==
  \E req \in FeedbackRequests, fault \in {"none"} \cup WriteFaults :
    LET sv == save_feedback(feedback_csv, req.text, req.predicted_label, req.confidence,
                            req.user_correct_label, req.source, fault)
    IN /\ HIERARCHICAL_AVAILABLE
       /\ Len(data_rows(sv.csv)) <= MaxSubmittedRows
       /\ call' = [op |-> "save_feedback", request |-> req,
                   response |-> [returned |-> sv.returned, raised |-> sv.raised],
                   saved |-> str_bool(sv.returned)]
       /\ feedback_csv' = sv.csv
       /\ UNCHANGED <<HIERARCHICAL_AVAILABLE, error_nlp_model, product_need_model, model_files,
                      hierarchical_globals, in_flight, retrain>>

FeedbackNext == RecommendAndLog \/ ProductNeedFeedback \/ SaveFeedback

FeedbackSpec == FeedbackInit /\ [][FeedbackNext]_vars

\* ------------------------------------------------------------------------
\* feedback_storage.py: save_feedback statement by statement, for calls
\* that run concurrently on a file system that does not fail.  The file
\* object buffers what csv.writer writes; the rows of one call, far smaller
\* than the buffer, reach the file in one write in append mode when the with
\* block closes the file.
\* ------------------------------------------------------------------------
\* the arguments of the call of writer w: the calls differ in confidence
writer_row(w, user_correct_label) ==
  feedback_row(NeedHelpText, "RAM Upgrade", 1000 * w, user_correct_label, "ml")

\* the file after one call that logged a recommendation
LoggedFile ==
  [exists |-> TRUE,
   rows |-> <<HeaderRow, feedback_row(GibberishText, "CPU Upgrade", 1750, None, "hierarchical_ml")>>]

ConcurrentInit ==
  /\ HIERARCHICAL_AVAILABLE = TRUE
  /\ error_nlp_model = NoModel
  /\ product_need_model = NoModel
  /\ model_files = NoModelFiles
  /\ hierarchical_globals = NotLoaded
  /\ feedback_csv \in {NoFeedbackFile, LoggedFile}
  /\ call = NoCall
  /\ in_flight = NoneInFlight
  /\ retrain = NoRetrain

\* what a statement of a writer leaves alone
writer_frame ==
  UNCHANGED <<HIERARCHICAL_AVAILABLE, error_nlp_model, product_need_model, model_files,
              hierarchical_globals, call, retrain>>

\* save_feedback is called, with a correction or without
WriterCall(w) ==
  /\ in_flight[w].pc = "idle"
  /\ \E user_correct_label \in {None, "SSD Upgrade"} :
       in_flight' = [in_flight EXCEPT ![w].pc = "mkdir",
                                      ![w].user_correct_label = user_correct_label]
  /\ UNCHANGED feedback_csv
  /\ writer_frame

\* line 41: FEEDBACK_CSV.parent.mkdir(parents=True, exist_ok=True)
WriterMkdir(w) ==
  /\ in_flight[w].pc = "mkdir"
  /\ in_flight' = [in_flight EXCEPT ![w].pc = "exists"]
  /\ UNCHANGED feedback_csv
  /\ writer_frame

\* line 42: file_exists = FEEDBACK_CSV.exists()
WriterExists(w) ==
  /\ in_flight[w].pc = "exists"
  /\ in_flight' = [in_flight EXCEPT ![w].pc = "open",
                                    ![w].file_exists = feedback_csv.exists]
  /\ UNCHANGED feedback_csv
  /\ writer_frame

\* line 44: FEEDBACK_CSV.open("a"), which creates a missing file
WriterOpen(w) ==
  /\ in_flight[w].pc = "open"
  /\ in_flight' = [in_flight EXCEPT ![w].pc = "header"]
  /\ feedback_csv' = [feedback_csv EXCEPT !.exists = TRUE]
  /\ writer_frame

\* lines 46-55: the header row, if the file did not exist at line 42
WriterHeader(w) ==
  /\ in_flight[w].pc = "header"
  /\ in_flight' = [in_flight EXCEPT ![w].pc = "row",
                                    ![w].buffer = IF in_flight[w].file_exists THEN <<>>
                                                  ELSE <<HeaderRow>>]
  /\ UNCHANGED feedback_csv
  /\ writer_frame

\* lines 57-67: the data row
WriterRow(w) ==
  /\ in_flight[w].pc = "row"
  /\ in_flight' = [in_flight EXCEPT ![w].pc = "close",
                                    ![w].buffer = Append(@, writer_row(w, in_flight[w].user_correct_label))]
  /\ UNCHANGED feedback_csv
  /\ writer_frame

\* the end of the with block writes the buffer to the end of the file;
\* line 69: return True
WriterClose(w) ==
  /\ in_flight[w].pc = "close"
  /\ feedback_csv' = [feedback_csv EXCEPT !.rows = @ \o in_flight[w].buffer]
  /\ in_flight' = [in_flight EXCEPT ![w].pc = "returned", ![w].buffer = <<>>,
                                    ![w].returned = "True"]
  /\ writer_frame

ConcurrentNext ==
  \E w \in Writers :
    \/ WriterCall(w)
    \/ WriterMkdir(w)
    \/ WriterExists(w)
    \/ WriterOpen(w)
    \/ WriterHeader(w)
    \/ WriterRow(w)
    \/ WriterClose(w)

ConcurrentSpec == ConcurrentInit /\ [][ConcurrentNext]_vars

\* ------------------------------------------------------------------------
\* predict_hierarchical on its own, called with the texts of the requests
\* on every state of the three files
\* ------------------------------------------------------------------------
\* normalized_probs of predict_hierarchical (lines 96-118) on the loaded
\* globals g, for models that do not raise
normalized_probs_of(txt, g) ==
  LET cat_probs == predict_proba(g.category_model, txt)
      comp_probs == predict_proba(g.component_model, txt)
      positions == filter_positions(g.component_model.classes,
                                    components_of(g.category_mapping.value,
                                                  g.category_model.classes[argmax(cat_probs)]))
  IN normalize(AtPositions(comp_probs, positions), SumSeq(AtPositions(comp_probs, positions)))

\* 'PC is slow': a text of length 10, on which the component model gives
\* the components of the predicted category probability 0
PcIsSlowText == <<"P","C"," ","i","s"," ","s","l","o","w">>

\* the texts predict_hierarchical is called with
HierarchicalTexts == Texts \cup {PcIsSlowText}

HierarchicalInit ==
  /\ HIERARCHICAL_AVAILABLE = TRUE
  /\ error_nlp_model = NoModel
  /\ product_need_model = NoModel
  /\ model_files \in
       [category : {AbsentFile(NoModel), CorruptFile(NoModel), FileOf(ThrowingModel), FileOf(CategoryModel)},
        component : {AbsentFile(NoModel), CorruptFile(NoModel), FileOf(ThrowingModel), FileOf(ComponentModel)},
        mapping : {AbsentFile(<<>>), FileOf(CategoryMapping)}]
  /\ hierarchical_globals = NotLoaded
  /\ feedback_csv = NoFeedbackFile
  /\ call = NoCall
  /\ in_flight = NoneInFlight
  /\ retrain = NoRetrain

\* predict_hierarchical(raw) is called; the call keeps what the function
\* returned or that it raised, and the normalized_probs it computed
PredictHierarchical ==
  \E raw \in HierarchicalTexts :
    LET ph == predict_hierarchical(raw, hierarchical_globals, model_files)
    IN /\ call' = [op |-> "predict_hierarchical", text |-> raw,
                   response |-> [raised |-> ph.raised, result |-> ph.result],
                   normalized_probs |-> IF ~ph.raised /\ ph.result.source = "hierarchical_ml"
                                        THEN normalized_probs_of(raw, ph.globals)
                                        ELSE <<>>]
       /\ hierarchical_globals' = ph.globals
       /\ UNCHANGED <<HIERARCHICAL_AVAILABLE, error_nlp_model, product_need_model, model_files,
                      feedback_csv, in_flight, retrain>>

HierarchicalNext == PredictHierarchical

HierarchicalSpec == HierarchicalInit /\ [][HierarchicalNext]_vars

\* ------------------------------------------------------------------------
\* retrain_with_feedback.py: the training data.  A data frame is the
\* sequence of its rows [text, label]; the columns the script does not
\* read are left out.
\* ------------------------------------------------------------------------
\* hardware_component_dataset_merged.csv after lines 55-57: a corpus of two
\* components with two examples each, and one in which PSU Upgrade has a
\* single example
TrainingCorpora ==
  { << [text |-> <<"p","c"," ","i","s"," ","s","l","o","w">>, label |-> "RAM Upgrade"],
       [text |-> <<"l","o","w"," ","m","e","m","o","r","y">>, label |-> "RAM Upgrade"],
       [text |-> <<"d","i","s","k"," ","f","u","l","l">>, label |-> "SSD Upgrade"],
       [text |-> <<"s","l","o","w"," ","b","o","o","t">>, label |-> "SSD Upgrade"] >>,
    << [text |-> <<"p","c"," ","i","s"," ","s","l","o","w">>, label |-> "RAM Upgrade"],
       [text |-> <<"l","o","w"," ","m","e","m","o","r","y">>, label |-> "RAM Upgrade"],
       [text |-> <<"n","o"," ","p","o","w","e","r">>, label |-> "PSU Upgrade"] >> }

\* the feedback files of the runs: none, and a logged prediction of
\* "PC is slow" without a correction, with the correction CPU Upgrade, and
\* with the correction Webcam Upgrade, which component_category_mapping.json
\* does not list
FeedbackFiles ==
  {NoFeedbackFile} \cup
  {[exists |-> TRUE,
    rows |-> <<HeaderRow, feedback_row(PcIsSlowText, "CPU Upgrade", 3000, correction, "hierarchical_ml")>>] :
     correction \in {None, "CPU Upgrade", "Webcam Upgrade"}}

\* lines 74-95: the rows of the feedback file that carry a correction (an
\* empty field is read as NaN), as training rows
corrections(csv) ==
  LET corrected == SelectSeq(data_rows(csv), LAMBDA r : r.user_correct_label # "")
  IN list([k \in 1..Len(corrected) |->
             [text |-> strip(lower(corrected[k].user_text)),
              label |-> corrected[k].user_correct_label]])

\* DataFrame.drop_duplicates: the first of equal rows stays
drop_duplicates(rows) ==
  LET first == {i \in 1..Len(rows) : \A j \in 1..(i - 1) : rows[j] # rows[i]}
  IN AtPositions(rows, first)

\* merge_feedback_with_training() (lines 48-107)
merge_feedback_with_training(df_original, csv) ==
  IF ~csv.exists \/ corrections(csv) = <<>>
  THEN df_original
  ELSE drop_duplicates(df_original \o corrections(csv))

\* lines 126-136: the rows whose component the mapping lists
with_category(df, component_to_category) ==
  SelectSeq(df, LAMBDA r : r.label \in DOMAIN component_to_category)

\* lines 146-147: X_category, y_category
category_rows(df, component_to_category) ==
  list([k \in 1..Len(df) |-> [text |-> df[k].text, label |-> component_to_category[df[k].label]]])

\* lines 183-193: X_component, y_component; the components with fewer
\* than two rows are left out when that removes more than a fifth of the
\* rows
component_rows(df) ==
  LET count(label) == Cardinality({k \in 1..Len(df) : df[k].label = label})
      df_filtered == SelectSeq(df, LAMBDA r : count(r.label) >= 2)
  IN IF 5 * Len(df_filtered) < 4 * Len(df) THEN df_filtered ELSE df

\* train_test_split(X, y, test_size=0.2, random_state=42): the possible
\* training parts.  ceil(0.2 * n) rows are held out (n is at most 5 here);
\* which ones is the choice of the seeded shuffle, and of the class
\* proportions when the stratified split does not raise.  With fewer than
\* two rows no training row would be left and both calls raise.
train_test_split(rows) ==
  LET n == Len(rows)
  IN IF n < 2 THEN {}
     ELSE {AtPositions(rows, (1..n) \ held_out) :
             held_out \in {h \in SUBSET (1..n) : Cardinality(h) = (n + 4) \div 5}}

\* ------------------------------------------------------------------------
\* retrain_with_feedback.py: retrain_models statement by statement.  The
\* active model files are model_files.category and model_files.component;
\* a statement that reads or writes a file, or fits a model, succeeds or
\* raises, and an exception ends the run (the script catches none).
\* ------------------------------------------------------------------------
\* the pipelines fitted on the merged data
RetrainedCategoryModel == [CategoryModel EXCEPT !.table = << <<500, 500, 8000, 1000>> >>]

RetrainedComponentModel ==
  [ComponentModel EXCEPT !.table = << <<1000, 500, 500, 7000, 500, 500>> >>]

\* shutil.copy2(path, backup_path): the backup file
copy2_nothing(file) == NoBackup

copy2(file) == file

\* a file joblib.dump was writing when it raised: it exists and does not
\* load
PartialFile == CorruptFile(NoModel)

RetrainInit ==
  /\ HIERARCHICAL_AVAILABLE = TRUE
  /\ error_nlp_model = NoModel
  /\ product_need_model = NoModel
  /\ model_files \in
       [category : {AbsentFile(NoModel), CorruptFile(NoModel), FileOf(ThrowingModel), FileOf(CategoryModel)},
        component : {AbsentFile(NoModel), CorruptFile(NoModel), FileOf(ThrowingModel), FileOf(ComponentModel)},
        mapping : {AbsentFile(<<>>), FileOf(CategoryMapping)}]
  /\ hierarchical_globals = NotLoaded
  /\ feedback_csv \in FeedbackFiles
  /\ call = NoCall
  /\ in_flight = NoneInFlight
  /\ retrain = NoRetrain

\* what a statement of retrain_models leaves alone
retrain_frame ==
  UNCHANGED <<HIERARCHICAL_AVAILABLE, error_nlp_model, product_need_model,
              hierarchical_globals, feedback_csv, call, in_flight>>

\* the statement at pc raised: the run is over
raised_at(pc) == [retrain EXCEPT !.pc = "raised", !.failed_at = pc]

\* python retrain_with_feedback.py: retrain_models() is called (line 229),
\* backup_models takes its timestamp (line 35)
RetrainStart ==
  /\ retrain.pc \in {"not running", "complete", "raised"}
  /\ retrain' = [NoRetrain EXCEPT !.pc = "backup_category",
                                    !.previous = [category |-> model_files.category,
                                                  component |-> model_files.component]]
  /\ UNCHANGED model_files
  /\ retrain_frame

\* lines 37-40: the category model, if there is one, is copied
BackupCategory ==
  /\ retrain.pc = "backup_category"
  /\ IF model_files.category.state = "absent"
     THEN retrain' = [retrain EXCEPT !.pc = "backup_component"]
     ELSE \E copied \in BOOLEAN :
            retrain' = IF copied
                       THEN [retrain EXCEPT !.pc = "backup_component",
                                            !.backups.category = copy2(model_files.category)]
                       ELSE raised_at("backup_category")
  /\ UNCHANGED model_files
  /\ retrain_frame

\* lines 42-45: the component model, if there is one, is copied
BackupComponent ==
  /\ retrain.pc = "backup_component"
  /\ IF model_files.component.state = "absent"
     THEN retrain' = [retrain EXCEPT !.pc = "merge"]
     ELSE \E copied \in BOOLEAN :
            retrain' = IF copied
                       THEN [retrain EXCEPT !.pc = "merge",
                                            !.backups.component = copy2(model_files.component)]
                       ELSE raised_at("backup_component")
  /\ UNCHANGED model_files
  /\ retrain_frame

\* line 120: merge_feedback_with_training() reads the training data and the
\* feedback file, and raises when pandas cannot read one of them
MergeFeedback ==
  /\ retrain.pc = "merge"
  /\ \/ \E df_original \in TrainingCorpora :
          retrain' = [retrain EXCEPT !.pc = "load_mapping",
                                     !.df = merge_feedback_with_training(df_original, feedback_csv)]
     \/ retrain' = raised_at("merge")
  /\ UNCHANGED model_files
  /\ retrain_frame

\* lines 123-136: the mapping is read (open raises when the file is
\* missing) and the rows of components it does not list are dropped
LoadMapping ==
  /\ retrain.pc = "load_mapping"
  /\ retrain' = IF model_files.mapping.state = "ok"
                THEN [retrain EXCEPT !.pc = "fit_category",
                                     !.df = with_category(@, reverse_mapping(model_files.mapping.content))]
                ELSE raised_at("load_mapping")
  /\ UNCHANGED model_files
  /\ retrain_frame

\* lines 144-174: the category rows are split, the category model is
\* fitted on the training part and evaluated; the split, fit or predict
\* can raise
FitCategory ==
  /\ retrain.pc = "fit_category"
  /\ LET rows == category_rows(retrain.df, reverse_mapping(model_files.mapping.content))
     IN \/ \E train \in train_test_split(rows) :
             retrain' = [retrain EXCEPT !.pc = "dump_category", !.split.category = rows,
                                        !.fitted.category = train]
        \/ retrain' = [raised_at("fit_category") EXCEPT !.split.category = rows]
  /\ UNCHANGED model_files
  /\ retrain_frame

\* line 175: joblib.dump(category_model, CATEGORY_MODEL_PATH) opens the
\* active file for writing, which truncates it; when open raises, the file
\* is as it was
DumpCategory ==
  /\ retrain.pc = "dump_category"
  /\ \/ /\ model_files' = [model_files EXCEPT !.category = PartialFile]
        /\ retrain' = [retrain EXCEPT !.pc = "write_category"]
     \/ /\ UNCHANGED model_files
        /\ retrain' = raised_at("dump_category")
  /\ retrain_frame

\* line 175, joblib.dump goes on: the pickle is written and the file
\* closed; when a write raises, the file stays partly written
WriteCategory ==
  /\ retrain.pc = "write_category"
  /\ \/ /\ model_files' = [model_files EXCEPT !.category = FileOf(RetrainedCategoryModel)]
        /\ retrain' = [retrain EXCEPT !.pc = "fit_component"]
     \/ /\ UNCHANGED model_files
        /\ retrain' = raised_at("dump_category")
  /\ retrain_frame

\* lines 183-217: the component rows are filtered and split, the component
\* model is fitted on the training part and evaluated
FitComponent ==
  /\ retrain.pc = "fit_component"
  /\ LET rows == component_rows(retrain.df)
     IN \/ \E train \in train_test_split(rows) :
             retrain' = [retrain EXCEPT !.pc = "dump_component", !.split.component = rows,
                                        !.fitted.component = train]
        \/ retrain' = [raised_at("fit_component") EXCEPT !.split.component = rows]
  /\ UNCHANGED model_files
  /\ retrain_frame

\* line 218: joblib.dump(component_model, COMPONENT_MODEL_PATH) opens the
\* active file for writing
DumpComponent ==
  /\ retrain.pc = "dump_component"
  /\ \/ /\ model_files' = [model_files EXCEPT !.component = PartialFile]
        /\ retrain' = [retrain EXCEPT !.pc = "write_component"]
     \/ /\ UNCHANGED model_files
        /\ retrain' = raised_at("dump_component")
  /\ retrain_frame

\* line 218, joblib.dump goes on
WriteComponent ==
  /\ retrain.pc = "write_component"
  /\ \/ /\ model_files' = [model_files EXCEPT !.component = FileOf(RetrainedComponentModel)]
        /\ retrain' = [retrain EXCEPT !.pc = "complete"]
     \/ /\ UNCHANGED model_files
        /\ retrain' = raised_at("dump_component")
  /\ retrain_frame

\* the model files _load_models() reads: a file is read when its global is
\* None and it exists, the component model only if the category model did
\* not raise
files_read(globals, files) ==
  LET st == load_category_model([raised |-> FALSE, globals |-> globals], files)
  IN [category |-> IF globals.category_model.kind = "none" /\ files.category.state # "absent"
                   THEN files.category ELSE NoBackup,
      component |-> IF ~st.raised /\ globals.component_model.kind = "none"
                       /\ files.component.state # "absent"
                    THEN files.component ELSE NoBackup]

\* a serving process calls _load_models() (hierarchical_inference.py,
\* lines 32-52) while the script runs or not: call records the files it
\* read
ServingLoad ==
  /\ call' = [op |-> "_load_models",
              raised |-> _load_models(hierarchical_globals, model_files).raised,
              read |-> files_read(hierarchical_globals, model_files)]
  /\ hierarchical_globals' = _load_models(hierarchical_globals, model_files).globals
  /\ UNCHANGED <<HIERARCHICAL_AVAILABLE, error_nlp_model, product_need_model, model_files,
                 feedback_csv, in_flight, retrain>>

RetrainNext ==
  \/ RetrainStart
  \/ BackupCategory
  \/ BackupComponent
  \/ MergeFeedback
  \/ LoadMapping
  \/ FitCategory
  \/ DumpCategory
  \/ WriteCategory
  \/ FitComponent
  \/ DumpComponent
  \/ WriteComponent
  \/ ServingLoad

RetrainSpec == RetrainInit /\ [][RetrainNext]_vars

\* ------------------------------------------------------------------------
\* The same request sent twice in a row: the second call runs on the globals
\* and the feedback file the first one left
\* ------------------------------------------------------------------------
\* the places where the file system fails the write of a repeated call
RepeatFaults == {"none", "row"}

\* the state after import, as in Init, with an error-type model and the
\* flat product-need model loaded or missing
RepeatInit ==
  /\ Init
  /\ error_nlp_model \in {ThrowingModel, ErrorTypeModel}
  /\ product_need_model \in {NoModel, FlatModel}

\* the places where a call can be failed, written being the call on a file
\* system that does not fail: only a call that writes can be failed
repeat_faults(written) == IF written.saved = "not called" THEN {"none"} ELSE RepeatFaults

\* the service has answered the text raw twice, with first and second
answer_twice(raw, first, second) ==
  /\ Len(data_rows(second.csv)) <= MaxFeedbackRows
  /\ call' = [op |-> "product_need_recommend", text |-> raw,
              globals_before |-> hierarchical_globals,
              first |-> first.response, second |-> second.response]
  /\ hierarchical_globals' = second.globals
  /\ feedback_csv' = second.csv
  /\ UNCHANGED <<HIERARCHICAL_AVAILABLE, error_nlp_model, product_need_model, model_files,
                 in_flight, retrain>>

\* the second call, on the globals and the file the first one left
repeat_second(raw, first, written) ==
  \E fault \in repeat_faults(written) :
    answer_twice(raw, first,
      IF fault = "none" THEN written
      ELSE product_need_recommend(raw, HIERARCHICAL_AVAILABLE, product_need_model,
                                  first.globals, model_files, first.csv, fault))

\* the first call
repeat_first(raw, written) ==
  \E fault \in repeat_faults(written) :
    IF fault = "none"
    THEN repeat_second(raw, written,
           product_need_recommend(raw, HIERARCHICAL_AVAILABLE, product_need_model,
                                  written.globals, model_files, written.csv, "none"))
    ELSE repeat_second(raw,
           product_need_recommend(raw, HIERARCHICAL_AVAILABLE, product_need_model,
                                  hierarchical_globals, model_files, feedback_csv, fault),
           product_need_recommend(raw, HIERARCHICAL_AVAILABLE, product_need_model,
                                  written.globals, model_files,
                                  product_need_recommend(raw, HIERARCHICAL_AVAILABLE, product_need_model,
                                                         hierarchical_globals, model_files,
                                                         feedback_csv, fault).csv,
                                  "none"))

\* POST /product_need_recommend twice with the same text: call holds both
\* responses
RepeatProductNeedRecommend ==
  \E raw \in Texts :
    repeat_first(raw,
      product_need_recommend(raw, HIERARCHICAL_AVAILABLE, product_need_model,
                             hierarchical_globals, model_files, feedback_csv, "none"))

\* detect_error_type_hybrid twice with the same text
RepeatDetectErrorType ==
  \E raw \in Texts :
    /\ call' = [op |-> "detect_error_type_hybrid", text |-> raw,
                globals_before |-> hierarchical_globals,
                first |-> detect_error_type_hybrid(raw, error_nlp_model).result,
                second |-> detect_error_type_hybrid(raw, error_nlp_model).result]
    /\ UNCHANGED <<HIERARCHICAL_AVAILABLE, error_nlp_model, product_need_model, model_files,
                   hierarchical_globals, feedback_csv, in_flight, retrain>>

RepeatNext == RepeatProductNeedRecommend \/ RepeatDetectErrorType

RepeatSpec == RepeatInit /\ [][RepeatNext]_vars

\* ------------------------------------------------------------------------
\* detect_error_type_hybrid on texts that carry keywords of
\* error_keywords_multi
\* ------------------------------------------------------------------------
\* 'sluggish': no rule; one keyword of Slow Performance
SluggishText == <<"s","l","u","g","g","i","s","h">>

\* the texts of the calls: no keyword, one keyword, two keywords of RAM
\* Upgrade, and texts the rules decide
KeywordTexts == {NeedHelpText, SluggishText, MemoryFullText, NoPowerText, PcSlowText}

\* a call of detect_error_type_hybrid with one of these texts
DetectKeywordText ==
  \E raw \in KeywordTexts :
    /\ call' = [op |-> "detect_error_type_hybrid", text |-> raw,
                response |-> detect_error_type_hybrid(raw, error_nlp_model).result,
                invoked |-> detect_error_type_hybrid(raw, error_nlp_model).invoked,
                saved |-> "not called"]
    /\ UNCHANGED <<HIERARCHICAL_AVAILABLE, error_nlp_model, product_need_model, model_files,
                   hierarchical_globals, feedback_csv, in_flight, retrain>>

DetectSpec == Init /\ [][DetectKeywordText]_vars

\* ------------------------------------------------------------------------
\* hierarchical_inference.py: _load_models statement by statement, called
\* by the threads of the server at the same time.  in_flight holds, for each
\* thread, the statement it is at, the position of its two loops, and the
\* globals _load_models returned to it.
\* ------------------------------------------------------------------------
\* the number of threads that call _load_models
NumLoaders == 2

Loaders == 1..NumLoaders

\* a thread that has not called _load_models
IdleLoader == [pc |-> "idle", category |-> 1, component |-> 1, returned |-> NotLoaded]

\* the files exist and load, or do not exist; no global is loaded and no
\* thread has called
LoadInit ==
  /\ HIERARCHICAL_AVAILABLE = TRUE
  /\ error_nlp_model = NoModel
  /\ product_need_model = NoModel
  /\ model_files \in
       [category : {AbsentFile(NoModel), FileOf(CategoryModel)},
        component : {AbsentFile(NoModel), FileOf(ComponentModel)},
        mapping : {AbsentFile(<<>>), FileOf(CategoryMapping)}]
  /\ hierarchical_globals = NotLoaded
  /\ feedback_csv = NoFeedbackFile
  /\ call = NoCall
  /\ in_flight = [t \in Loaders |-> IdleLoader]
  /\ retrain = NoRetrain

\* what a statement of _load_models leaves alone
loader_frame ==
  UNCHANGED <<HIERARCHICAL_AVAILABLE, error_nlp_model, product_need_model, model_files,
              feedback_csv, call, retrain>>

\* thread t is at the statement pc
loader_at(t, pc) == [in_flight EXCEPT ![t].pc = pc]

\* predict_hierarchical or get_category_for_component calls _load_models()
\* (lines 72, 150)
LoaderCall(t) ==
  /\ in_flight[t].pc \in {"idle", "returned"}
  /\ in_flight' = [in_flight EXCEPT ![t] = [IdleLoader EXCEPT !.pc = "category_model"]]
  /\ UNCHANGED hierarchical_globals
  /\ loader_frame

\* lines 36-37
LoaderCategoryModel(t) ==
  /\ in_flight[t].pc = "category_model"
  /\ hierarchical_globals' =
       load_category_model([raised |-> FALSE, globals |-> hierarchical_globals], model_files).globals
  /\ in_flight' = loader_at(t, "component_model")
  /\ loader_frame

\* lines 39-40
LoaderComponentModel(t) ==
  /\ in_flight[t].pc = "component_model"
  /\ hierarchical_globals' =
       load_component_model([raised |-> FALSE, globals |-> hierarchical_globals], model_files).globals
  /\ in_flight' = loader_at(t, "category_mapping")
  /\ loader_frame

\* line 42: if _category_mapping is None and MAPPING_PATH.exists()
LoaderTestMapping(t) ==
  /\ in_flight[t].pc = "category_mapping"
  /\ in_flight' = loader_at(t, IF hierarchical_globals.category_mapping.is_none
                                  /\ model_files.mapping.state # "absent"
                               THEN "json_load" ELSE "return")
  /\ UNCHANGED hierarchical_globals
  /\ loader_frame

\* lines 43-44: _category_mapping = json.load(f)
LoaderJsonLoad(t) ==
  /\ in_flight[t].pc = "json_load"
  /\ hierarchical_globals' =
       [hierarchical_globals EXCEPT
          !.category_mapping = [is_none |-> FALSE, value |-> model_files.mapping.content]]
  /\ in_flight' = loader_at(t, "new_reverse")
  /\ loader_frame

\* line 47: _component_to_category = {}
LoaderNewReverse(t) ==
  /\ in_flight[t].pc = "new_reverse"
  /\ hierarchical_globals' =
       [hierarchical_globals EXCEPT !.component_to_category = [is_none |-> FALSE, value |-> <<>>]]
  /\ in_flight' = loader_at(t, "insert")
  /\ loader_frame

\* the dict d after d[key] = value
dict_set(d, key, value) == [k \in DOMAIN d \cup {key} |-> IF k = key THEN value ELSE d[k]]

\* the position of the loops of lines 48-49 after (category, component) in
\* the mapping, or <<0, 0>> when the loops are over
next_item(category_mapping, category, component) ==
  IF component < Len(category_mapping[category].components)
  THEN <<category, component + 1>>
  ELSE IF \E k \in (category + 1)..Len(category_mapping) : category_mapping[k].components # <<>>
  THEN <<CHOOSE k \in (category + 1)..Len(category_mapping) :
           /\ category_mapping[k].components # <<>>
           /\ \A j \in (category + 1)..(k - 1) : category_mapping[j].components = <<>>, 1>>
  ELSE <<0, 0>>

\* line 50, once for a component of the loops of lines 48-49:
\* _component_to_category[component] = category, on the dict the global
\* names now
LoaderInsert(t) ==
  /\ in_flight[t].pc = "insert"
  /\ hierarchical_globals' =
       [hierarchical_globals EXCEPT
          !.component_to_category.value =
             dict_set(@,
                      hierarchical_globals.category_mapping.value[in_flight[t].category]
                        .components[in_flight[t].component],
                      hierarchical_globals.category_mapping.value[in_flight[t].category].category)]
  /\ in_flight' =
       [in_flight EXCEPT
          ![t].category = next_item(hierarchical_globals.category_mapping.value,
                                    in_flight[t].category, in_flight[t].component)[1],
          ![t].component = next_item(hierarchical_globals.category_mapping.value,
                                     in_flight[t].category, in_flight[t].component)[2],
          ![t].pc = IF next_item(hierarchical_globals.category_mapping.value,
                                 in_flight[t].category, in_flight[t].component) = <<0, 0>>
                    THEN "return" ELSE "insert"]
  /\ loader_frame

\* line 52: the four globals are returned to the caller
LoaderReturn(t) ==
  /\ in_flight[t].pc = "return"
  /\ in_flight' = [in_flight EXCEPT ![t].pc = "returned", ![t].returned = hierarchical_globals]
  /\ UNCHANGED hierarchical_globals
  /\ loader_frame

LoadNext ==
  \E t \in Loaders :
    \/ LoaderCall(t)
    \/ LoaderCategoryModel(t)
    \/ LoaderComponentModel(t)
    \/ LoaderTestMapping(t)
    \/ LoaderJsonLoad(t)
    \/ LoaderNewReverse(t)
    \/ LoaderInsert(t)
    \/ LoaderReturn(t)

LoadSpec == LoadInit /\ [][LoadNext]_vars
\* ------------------------------------------------------------------------
\* match_rule on its own: the texts are the keywords of each rule, the
\* keywords of each rule after those of the next rule, and the texts of the
\* requests
\* ------------------------------------------------------------------------
RECURSIVE join(_)
\* " ".join(words)
join(words) ==
  IF Len(words) = 1 THEN words[1] ELSE words[1] \o <<" ">> \o join(Tail(words))

\* a text that holds every keyword of a rule
keywords_text(rule) == IF rule.is_list THEN join(rule.keywords) ELSE rule.keywords

RuleTexts ==
  Texts
  \cup {keywords_text(RULES[i]) : i \in 1..Len(RULES)}
  \cup {keywords_text(RULES[i + 1]) \o <<" ">> \o keywords_text(RULES[i]) : i \in 1..(Len(RULES) - 1)}

RuleInit ==
  /\ HIERARCHICAL_AVAILABLE = TRUE
  /\ error_nlp_model = NoModel
  /\ product_need_model = NoModel
  /\ model_files = NoModelFiles
  /\ hierarchical_globals = NotLoaded
  /\ feedback_csv = NoFeedbackFile
  /\ in_flight = NoneInFlight
  /\ retrain = NoRetrain
  /\ \E t \in RuleTexts : call = [NoCall EXCEPT !.op = "text", !.text = t]

\* match_rule(text) is called
MatchRule ==
  /\ call.op = "text"
  /\ call' = [call EXCEPT !.op = "match_rule", !.response = match_rule(call.text)]
  /\ UNCHANGED <<HIERARCHICAL_AVAILABLE, error_nlp_model, product_need_model, model_files,
                 hierarchical_globals, feedback_csv, in_flight, retrain>>

RuleNext == MatchRule

RuleSpec == RuleInit /\ [][RuleNext]_vars

\* ------------------------------------------------------------------------
\* Properties
\* ------------------------------------------------------------------------
\* the keywords of the condition of RULES[i]
keywords_of(i) ==
  IF RULES[i].is_list
  THEN {RULES[i].keywords[k] : k \in 1..Len(RULES[i].keywords)}
  ELSE {RULES[i].keywords}

\* the rules whose every keyword is a substring of the lowercased, trimmed
\* text
satisfied_rules(txt) ==
  {i \in 1..Len(RULES) : \A kw \in keywords_of(i) : Contains(strip(lower(txt)), kw)}

\* what match_rule returns of RULES[i]
rule_result(i) ==
  [matched |-> TRUE, component |-> RULES[i].component, confidence |-> RULES[i].confidence,
   explanation |-> RULES[i].explanation, related |-> RULES[i].related_components]

\* C1: match_rule returns the label, confidence, explanation and related
\* labels of the first rule, in the order of RULES, whose keywords are all
\* substrings of the lowercased, trimmed text, never those of a later rule,
\* and None when no rule is satisfied.
C1_FirstSatisfiedRule ==
  call.op = "match_rule" =>
    IF satisfied_rules(call.text) = {}
    THEN call.response = NoRule
    ELSE \E i \in satisfied_rules(call.text) :
           /\ \A j \in satisfied_rules(call.text) : i <= j
           /\ call.response = rule_result(i)

\* match_rule answered a text that satisfies two rules of different
\* results, with the earlier one
C1_Witness ==
  /\ call.op = "match_rule"
  /\ \E i, j \in satisfied_rules(call.text) :
       /\ i < j
       /\ rule_result(i) # rule_result(j)
       /\ call.response = rule_result(i)

\* the text of the last call after text.strip()
stripped == strip(call.text)

\* what the matchers and the ML model of detect_error_type_hybrid give on
\* the text of the last call
rule_of_call == cached_rule_based_error_type(stripped)

legacy_of_call == cached_detect_error_type_rules(stripped)

ml_of_call == detect_error_type_ml(stripped, error_nlp_model)

\* the ML model returned a label at 0.6 or more
ml_is_sure == ml_of_call.label # None /\ ml_of_call.confidence >= 6000

\* what predict_hierarchical gives on the text of the last call; the globals
\* a call leaves behind load nothing more
hierarchical_of_call == predict_hierarchical(stripped, hierarchical_globals, model_files)

\* the last call ran the rule stage of product_need_recommend, which matched
product_rule_hit ==
  /\ call.op = "product_need_recommend"
  /\ HIERARCHICAL_AVAILABLE
  /\ stripped # <<>>
  /\ cached_match_rule(stripped).matched

\* the last call ran the rule stage of product_need_recommend, or had none,
\* and no rule matched
product_no_rule ==
  /\ call.op = "product_need_recommend"
  /\ stripped # <<>>
  /\ HIERARCHICAL_AVAILABLE => ~cached_match_rule(stripped).matched

\* C2: in product_need_recommend a match of match_rule, and in
\* detect_error_type_hybrid a match of rule_based_error_type at 0.8 or more,
\* is returned with source "rule", and the call invokes neither
\* predict_hierarchical nor the flat model nor detect_error_type_ml.
C2_RuleShortCircuits ==
  /\ product_rule_hit =>
       /\ ~call.response.raised
       /\ call.response.component = cached_match_rule(stripped).component
       /\ call.response.source = "rule"
       /\ call.invoked \cap {"predict_hierarchical", "predict_product_need"} = {}
  /\ (/\ call.op = "detect_error_type_hybrid"
      /\ stripped # <<>>
      /\ rule_of_call.label # None
      /\ rule_of_call.confidence >= 8000) =>
       /\ call.response.label = rule_of_call.label
       /\ call.response.source = "rule"
       /\ "detect_error_type_ml" \notin call.invoked

\* a rule answered product_need_recommend while every model was there to
\* be asked
C2_Witness ==
  /\ product_rule_hit
  /\ product_need_model = FlatModel
  /\ model_files = [category |-> FileOf(CategoryModel), component |-> FileOf(ComponentModel),
                    mapping |-> FileOf(CategoryMapping)]
  /\ call.response.source = "rule"
  /\ call.invoked = {"match_rule"}

\* C3 as claimed: product_need_recommend returns a hierarchical result as
\* the primary label only at a combined confidence of 0.6 or more.
C3_HierarchicalOnlyAboveThreshold ==
  (/\ call.op = "product_need_recommend"
   /\ ~call.response.raised
   /\ call.response.source = "hierarchical_ml") =>
    call.response.confidence >= 6000

\* C3, amended: when no rule matches, product_need_recommend returns the
\* component of predict_hierarchical as the primary label, with source
\* "hierarchical_ml", whatever its combined confidence; the flat stage runs
\* only when predict_hierarchical gives no component.
C3_HierarchicalAtAnyConfidence ==
  (product_no_rule /\ HIERARCHICAL_AVAILABLE) =>
    IF ~hierarchical_of_call.raised /\ hierarchical_of_call.result.comp # None
    THEN /\ call.response.component = hierarchical_of_call.result.comp
         /\ call.response.confidence = hierarchical_of_call.result.conf
         /\ call.response.source = "hierarchical_ml"
         /\ "predict_product_need" \notin call.invoked
    ELSE /\ call.response.source # "hierarchical_ml"
         /\ "predict_product_need" \in call.invoked <=> product_need_model.kind # "none"

\* a hierarchical result below 0.6 was returned as the primary label, with
\* the flat model loaded and not asked
C3_Witness ==
  /\ product_no_rule
  /\ call.response.source = "hierarchical_ml"
  /\ call.response.confidence < 6000
  /\ product_need_model = FlatModel
  /\ "predict_product_need" \notin call.invoked

\* C4: in detect_error_type_hybrid, when rule_based_error_type or
\* detect_error_type_rules matched and detect_error_type_ml gave no label at
\* 0.6 or more, the label returned is that of a rule matcher and the source
\* is "rule" or "rules".
C4_RuleBeatsUnsureML ==
  (/\ call.op = "detect_error_type_hybrid"
   /\ stripped # <<>>
   /\ rule_of_call.label # None \/ legacy_of_call.label # None
   /\ ~ml_is_sure) =>
    /\ call.response.source \in {"rule", "rules"}
    /\ call.response.label \in {rule_of_call.label, legacy_of_call.label} \ {None}

\* a rule below 0.8 was returned although the ML model had predicted, below
\* 0.6
C4_Witness ==
  /\ call.op = "detect_error_type_hybrid"
  /\ rule_of_call.label # None
  /\ rule_of_call.confidence < 8000
  /\ ml_of_call.source = "ml_low_conf"
  /\ call.response.source = "rule"
  /\ call.response.label = rule_of_call.label

\* C5 as claimed: on an empty or white-space text both entry points give a
\* result of source "none", invoke no stage and raise nothing.
C5_BlankGivesSourceNone ==
  (call.op \in {"detect_error_type_hybrid", "product_need_recommend"} /\ stripped = <<>>) =>
    /\ call.invoked = {}
    /\ call.response.source = "none"
    /\ call.op = "product_need_recommend" => ~call.response.raised

\* C5, amended: on an empty or white-space text detect_error_type_hybrid
\* returns "General Repair" at confidence 0.0 with source "fallback", and
\* product_need_recommend raises HTTPException 400; neither invokes a rule
\* or model stage.
C5_BlankShortCircuits ==
  /\ (call.op = "detect_error_type_hybrid" /\ stripped = <<>>) =>
       /\ call.response = hybrid_result("General Repair", 0, "fallback", <<>>, <<>>)
       /\ call.invoked = {}
  /\ (call.op = "product_need_recommend" /\ stripped = <<>>) =>
       /\ call.response = HTTPException(400)
       /\ call.invoked = {}
       /\ call.saved = "not called"

\* product_need_recommend rejected a text of white space
C5_Witness ==
  /\ call.op = "product_need_recommend"
  /\ call.text = BlankText
  /\ call.response.raised
  /\ call.response.status_code = 400

\* the alternatives of a result are pairs of a label and a confidence in
\* [0, 1]
well_formed_alternatives(alternatives) ==
  \A k \in 1..Len(alternatives) :
    /\ alternatives[k].label # None
    /\ alternatives[k].confidence \in 0..10000

\* a result dict of detect_error_type_hybrid with its keys, a confidence in
\* [0, 1] and one of the sources of the code
well_formed_detection(r) ==
  /\ DOMAIN r = {"label", "confidence", "source", "alternatives", "multiple_types"}
  /\ r.confidence \in 0..10000
  /\ r.source \in {"rule", "rules", "ml", "ml_low_conf", "fallback"}
  /\ well_formed_alternatives(r.alternatives)

\* a ProductNeedResponse, not an exception, with a confidence in [0, 1] and
\* one of the sources of the code
well_formed_recommendation(r) ==
  /\ ~r.raised
  /\ r.confidence \in 0..10000
  /\ r.source \in {"rule", "hierarchical_ml", "ml", "none"}
  /\ well_formed_alternatives(r.alternatives)

\* C6 as claimed: on every non-empty text, whatever models are loaded,
\* absent or throwing, both entry points return a well-formed result and
\* raise nothing.
C6_WellFormedOnNonEmpty ==
  /\ (call.op = "detect_error_type_hybrid" /\ call.text # <<>>) =>
       well_formed_detection(call.response)
  /\ (call.op = "product_need_recommend" /\ call.text # <<>>) =>
       well_formed_recommendation(call.response)

\* C6, amended: whatever models are loaded, absent or throwing,
\* detect_error_type_hybrid returns a well-formed result on every non-empty
\* text, and product_need_recommend on every text that is not white space
\* only; on a text of white space product_need_recommend raises
\* HTTPException 400.
C6_WellFormedOnNonBlank ==
  /\ (call.op = "detect_error_type_hybrid" /\ call.text # <<>>) =>
       well_formed_detection(call.response)
  /\ (call.op = "product_need_recommend" /\ stripped # <<>>) =>
       well_formed_recommendation(call.response)
  /\ (call.op = "product_need_recommend" /\ call.text # <<>> /\ stripped = <<>>) =>
       call.response = HTTPException(400)

\* product_need_recommend answered although the hierarchical models could
\* not be loaded and the flat model threw
C6_Witness ==
  /\ call.op = "product_need_recommend"
  /\ product_no_rule
  /\ HIERARCHICAL_AVAILABLE
  /\ model_files.category.state = "corrupt"
  /\ product_need_model = ThrowingModel
  /\ call.invoked = {"match_rule", "predict_hierarchical", "predict_product_need"}
  /\ well_formed_recommendation(call.response)

\* C7 as claimed: in every result of the two entry points a null label has
\* confidence 0.
C7_NullLabelHasZeroConfidence ==
  /\ (call.op = "detect_error_type_hybrid" /\ call.response.label = None) =>
       call.response.confidence = 0
  /\ (call.op = "product_need_recommend" /\ ~call.response.raised
        /\ call.response.component = None) =>
       call.response.confidence = 0

\* C7, amended: in every result of product_need_recommend a null label has
\* confidence 0; detect_error_type_hybrid returns a null label only with
\* source "ml_low_conf", at the confidence, below 0.6, of the prediction of
\* the ML model.
C7_NullLabelZeroOrUnsureML ==
  /\ (call.op = "detect_error_type_hybrid" /\ call.response.label = None) =>
       /\ call.response.source = "ml_low_conf"
       /\ call.response.confidence = nlp_predict(error_nlp_model, stripped).best_confidence
       /\ call.response.confidence < 6000
  /\ (call.op = "product_need_recommend" /\ ~call.response.raised
        /\ call.response.component = None) =>
       call.response.confidence = 0

\* detect_error_type_hybrid returned a null label with a positive
\* confidence
C7_Witness ==
  /\ call.op = "detect_error_type_hybrid"
  /\ call.response.label = None
  /\ call.response.confidence > 0

\* every stage of detect_error_type_hybrid abstained on the last call: no
\* rule matched, the ML model gave no label, and the keyword scan detected
\* no type
detection_abstained ==
  /\ call.op = "detect_error_type_hybrid"
  /\ stripped # <<>>
  /\ rule_of_call.label = None
  /\ legacy_of_call.label = None
  /\ ~ml_is_sure
  /\ cached_detected_types(lower(call.text)) = <<>>

\* every stage of product_need_recommend abstained on the last call: no
\* rule matched and no model gave a component
recommendation_abstained ==
  /\ product_no_rule
  /\ HIERARCHICAL_AVAILABLE =>
       hierarchical_of_call.raised \/ hierarchical_of_call.result.comp = None
  /\ predict_product_need(stripped, product_need_model).best_label = None

\* C8 as claimed: when every stage abstains on a non-empty text, the result
\* is the default label at a fixed low confidence, with source "none" and a
\* request for feedback, never a null label of a low-confidence ML stage.
C8_DefaultWithSourceNone ==
  /\ detection_abstained =>
       /\ call.response.label = "General Repair"
       /\ call.response.confidence = 3000
       /\ call.response.source = "none"
  /\ recommendation_abstained =>
       /\ call.response.component # None
       /\ call.response.source = "none"
       /\ call.response.ask_feedback

\* C8, amended: when every stage abstains on a non-empty text,
\* detect_error_type_hybrid returns "General Repair" at confidence 0.3 with
\* source "fallback" if the ML model gave no prediction, and the null label
\* and the confidence of the ML model with source "ml_low_conf" if it
\* predicted below 0.6; product_need_recommend returns a null label at
\* confidence 0.0 with source "none" and a request for feedback.
C8_DefaultOrUnsureML ==
  /\ detection_abstained =>
       IF ml_of_call.source = "none"
       THEN call.response = hybrid_result("General Repair", 3000, "fallback", <<>>, <<>>)
       ELSE /\ call.response.label = None
            /\ call.response.confidence = ml_of_call.confidence
            /\ call.response.source = "ml_low_conf"
  /\ recommendation_abstained =>
       /\ call.response = no_prediction_response
       /\ call.response.component = None
       /\ call.response.confidence = 0
       /\ call.response.source = "none"
       /\ call.response.ask_feedback

\* detect_error_type_hybrid fell through to its default on a text of
\* gibberish, the ML model throwing
C8_Witness ==
  /\ detection_abstained
  /\ call.text = GibberishText
  /\ error_nlp_model = ThrowingModel
  /\ call.response.label = "General Repair"
  /\ call.response.source = "fallback"

\* the records a step appends to the feedback file
appended == Len(data_rows(feedback_csv')) - Len(data_rows(feedback_csv))

write_fails(csv, fault) ==
  \/ fault \in {"mkdir", "open", "row"}
  \/ fault = "header" /\ ~csv.exists

\* C10: when the write fails, in creating the directory, opening or writing
\* the file, save_feedback returns False and raises nothing, and
\* product_need_recommend returns the response it returns when the write
\* succeeds.
C10_WriteFailureSwallowed ==
  (call.op = "product_need_recommend" /\ stripped # <<>>) =>
    /\ \A fault \in WriteFaults :
         write_fails(feedback_csv, fault) =>
           /\ ~save_feedback(feedback_csv, stripped, call.response.component,
                             call.response.confidence, None, call.response.source, fault).returned
           /\ ~save_feedback(feedback_csv, stripped, call.response.component,
                             call.response.confidence, None, call.response.source, fault).raised
    /\ call.saved \in {"not called", "True", "False"}
    /\ call.response =
         product_need_recommend(call.text, HIERARCHICAL_AVAILABLE, product_need_model,
                                hierarchical_globals, model_files, feedback_csv, "none").response

\* the write of a call failed and the call returned its recommendation
C10_Witness ==
  /\ call.op = "product_need_recommend"
  /\ call.saved = "False"
  /\ ~call.response.raised
  /\ call.response.component # None
  /\ call.response.ask_feedback


\* C11: every online operation (product_need_recommend,
\* product_need_feedback, save_feedback) only appends to the feedback file:
\* the rows there before are there after, unchanged and at their positions,
\* and an accepted submission of feedback is one new last row, that of the
\* request.
C11_AppendOnly ==
  [][/\ feedback_csv.exists => feedback_csv'.exists
     /\ Len(feedback_csv'.rows) >= Len(feedback_csv.rows)
     /\ SubSeq(feedback_csv'.rows, 1, Len(feedback_csv.rows)) = feedback_csv.rows
     /\ (call'.op = "product_need_feedback" /\ call'.response.success) =>
          /\ Len(data_rows(feedback_csv')) = Len(data_rows(feedback_csv)) + 1
          /\ feedback_csv'.rows[Len(feedback_csv'.rows)] =
               feedback_row(call'.request.text, call'.request.predicted_label,
                            call'.request.confidence, call'.request.user_correct_label,
                            call'.request.source)]_vars

\* the record product_need_recommend logged is followed by the correction
\* the user submitted for it
C11_Witness ==
  /\ call.op = "product_need_feedback"
  /\ call.response.success
  /\ Len(feedback_csv.rows) = 3
  /\ feedback_csv.rows[1] = HeaderRow
  /\ feedback_csv.rows[2] = feedback_row(GibberishText, "CPU Upgrade", 1750, None, "hierarchical_ml")
  /\ feedback_csv.rows[3] = feedback_row(GibberishText, "CPU Upgrade", 1750, "SSD Upgrade",
                                         "hierarchical_ml")

\* the rows of the feedback file that are the header row
header_positions == {i \in 1..Len(feedback_csv.rows) : feedback_csv.rows[i] = HeaderRow}

\* every concurrent call of save_feedback has returned
all_returned == \A w \in Writers : in_flight[w].pc = "returned"

\* C12: whatever the interleaving of concurrent calls of save_feedback,
\* first calls on a file that does not exist among them, once they have
\* returned the file is one header row followed by one intact row for each
\* call: no second header, no lost row.
C12_OneHeaderOneRowPerCall ==
  all_returned =>
    /\ header_positions = {1}
    /\ \A w \in Writers :
         Cardinality({i \in 1..Len(feedback_csv.rows) :
                        feedback_csv.rows[i] = writer_row(w, in_flight[w].user_correct_label)}) = 1
    /\ Len(data_rows(feedback_csv)) \in {NumWriters, NumWriters + 1}

\* C13: every record save_feedback has appended has needs_review true if
\* and only if a correction is present, that is stored as a non-empty
\* user_correct_label, and differs from the predicted label.
C13_NeedsReviewIffCorrectionDiffers ==
  \A i \in 1..Len(feedback_csv.rows) :
    feedback_csv.rows[i] # HeaderRow =>
      (feedback_csv.rows[i].needs_review = "True" <=>
         /\ feedback_csv.rows[i].user_correct_label # ""
         /\ feedback_csv.rows[i].user_correct_label # feedback_csv.rows[i].predicted_label)

\* the last call is a call of product_need_recommend that returned a
\* component
recommended ==
  /\ call.op = "product_need_recommend"
  /\ ~call.response.raised
  /\ call.response.component # None

\* C14: in every response of product_need_recommend with a component, the
\* first of the alternatives has the label of the component.
C14_PrimaryIsFirstAlternative ==
  recommended =>
    /\ Len(call.response.alternatives) >= 1
    /\ call.response.alternatives[1].label = call.response.component

\* C15: in every response of product_need_recommend the confidences of the
\* alternatives do not increase from the first to the last.
C15_AlternativesNonIncreasing ==
  (call.op = "product_need_recommend" /\ ~call.response.raised) =>
    \A k \in 1..(Len(call.response.alternatives) - 1) :
      call.response.alternatives[k].confidence >= call.response.alternatives[k + 1].confidence

\* C16: in every response of product_need_recommend there are at most five
\* alternatives and no label is in them twice, whichever stage predicted.
C16_AtMostFiveUniqueAlternatives ==
  (call.op = "product_need_recommend" /\ ~call.response.raised) =>
    /\ Len(call.response.alternatives) <= 5
    /\ \A j, k \in 1..Len(call.response.alternatives) :
         call.response.alternatives[j].label = call.response.alternatives[k].label => j = k

\* five related components had displaced the component of the hierarchical
\* stage, which was put back: five alternatives, the component among them
C16_Witness ==
  /\ recommended
  /\ call.text = OverheatText
  /\ call.response.source = "hierarchical_ml"
  /\ Len(call.response.alternatives) = 5
  /\ call.response.alternatives[1].label = call.response.component
  /\ Len(cached_get_related_components(stripped, call.response.component)) = 5

\* C17: whenever predict_hierarchical has normalized the probabilities of
\* its candidates, those of the predicted category or, when the component
\* model knows none of them, all components, the normalized probabilities
\* sum to 1, also when the filtered probabilities summed to 0 and the
\* uniform distribution is used.  On the grid of 1/10000 each quotient is
\* rounded down: the sum is 1 up to less than 0.0001 for each candidate.
C17_NormalizedSumsToOne ==
  (call.op = "predict_hierarchical" /\ call.normalized_probs # <<>>) =>
    /\ \A k \in 1..Len(call.normalized_probs) : call.normalized_probs[k] \in 0..10000
    /\ SumSeq(call.normalized_probs) <= 10000
    /\ SumSeq(call.normalized_probs) > 10000 - Len(call.normalized_probs)

\* the three components of the predicted category all had probability 0 and
\* share the probability uniformly
C17_Witness ==
  /\ call.op = "predict_hierarchical"
  /\ call.text = PcIsSlowText
  /\ call.response.result.source = "hierarchical_ml"
  /\ call.normalized_probs = <<3333, 3333, 3333>>

\* a file of a model of hierarchical_inference is missing or cannot be
\* loaded, or a model raises in predict_proba
artifact_fails ==
  \E f \in {model_files.category, model_files.component} :
    f.state # "ok" \/ f.content.kind = "throws"

\* C18: predict_hierarchical never raises; with a model file missing or
\* unloadable, or a model raising in its stage, it returns
\* (None, 0.0, source, [], {}) with source one of models_not_loaded,
\* category_prediction_failed and component_prediction_failed.
C18_NeverRaises ==
  call.op = "predict_hierarchical" =>
    /\ ~call.response.raised
    /\ artifact_fails =>
         /\ call.response.result.comp = None
         /\ call.response.result.conf = 0
         /\ call.response.result.source \in
              {"models_not_loaded", "category_prediction_failed", "component_prediction_failed"}
         /\ call.response.result.top5 = <<>>
         /\ call.response.result.grouped = <<>>

\* C19: when fitting or evaluating the category model or the component
\* model fails in retrain_models, the two active model files are those the
\* run started with: no run ends with the new category model next to the
\* old component model.
C19_FailedFitKeepsPrevious ==
  (retrain.pc = "raised" /\ retrain.failed_at \in {"fit_category", "fit_component"}) =>
    /\ model_files.category = retrain.previous.category
    /\ model_files.component = retrain.previous.component

\* C20: in every run of retrain_models a model file that existed when the
\* run started is written only after backup_models has copied it in this
\* run: when an active model file changes, its backup is the version the
\* run replaces.
C20_BackupBeforeWrite ==
  [][/\ (model_files'.category # model_files.category /\ retrain.previous.category.state # "absent") =>
          retrain.backups.category = retrain.previous.category
     /\ (model_files'.component # model_files.component /\ retrain.previous.component.state # "absent") =>
          retrain.backups.component = retrain.previous.component]_vars

\* a run replaced both models, each of which it had backed up
C20_Witness ==
  /\ retrain.pc = "complete"
  /\ retrain.previous.category = FileOf(CategoryModel)
  /\ retrain.previous.component = FileOf(ComponentModel)
  /\ retrain.backups = retrain.previous
  /\ model_files.category = FileOf(RetrainedCategoryModel)
  /\ model_files.component = FileOf(RetrainedComponentModel)

\* the training rows of the corrections stored in the feedback file
corrected_pairs == {corrections(feedback_csv)[k] : k \in 1..Len(corrections(feedback_csv))}

\* C21: after a run of retrain_models that completed, every correction
\* stored in the feedback file is among the rows the component model was
\* fitted on, and its text among the rows the category model was fitted on.
C21_CorrectionIsFittedOn ==
  retrain.pc = "complete" =>
    \A pair \in corrected_pairs :
      /\ \E k \in 1..Len(retrain.fitted.component) : retrain.fitted.component[k] = pair
      /\ \E k \in 1..Len(retrain.fitted.category) : retrain.fitted.category[k].text = pair.text

\* C22: every component among the rows retrain_models hands to
\* train_test_split for the component model has two rows or more.
C22_NoSingleExampleClassIsSplit ==
  \A k \in 1..Len(retrain.split.component) :
    Cardinality({j \in 1..Len(retrain.split.component) :
                   retrain.split.component[j].label = retrain.split.component[k].label}) >= 2

\* the statements of retrain_models between its start and its end
running == {"backup_category", "backup_component", "merge", "load_mapping", "fit_category",
            "dump_category", "write_category", "fit_component", "dump_component", "write_component"}

\* C23: a call of _load_models made while retrain_models runs reads, at
\* each model path, the complete file the run started with or the complete
\* new file, never a partly written one.
C23_LoadSeesPreviousOrNew ==
  [][(call'.op = "_load_models" /\ retrain.pc \in running
      /\ (call' # call \/ hierarchical_globals' # hierarchical_globals)) =>
       /\ call'.read.category \in {NoBackup, retrain.previous.category, FileOf(RetrainedCategoryModel)}
       /\ call'.read.component \in {NoBackup, retrain.previous.component, FileOf(RetrainedComponentModel)}]_vars

keyword_score(k) == count_in(error_keywords_multi[k].keywords, lower(call.text))

\* C25: when detect_error_type_hybrid reaches its fallbacks (no rule gave a
\* label and the ML model none) on a text that holds a keyword of some
\* error type, it returns an error type with the most keywords in the text,
\* not the default General Repair at 0.3.
C25_KeywordFallbackOnAnyScore ==
  (/\ call.op = "detect_error_type_hybrid"
   /\ strip(call.text) # <<>>
   /\ call.response.source = "fallback"
   /\ \E k \in 1..Len(error_keywords_multi) : keyword_score(k) > 0) =>
    \E k \in 1..Len(error_keywords_multi) :
      /\ call.response.label = error_keywords_multi[k].error_type
      /\ \A j \in 1..Len(error_keywords_multi) : keyword_score(j) <= keyword_score(k)

\* C26: the top-5 alternatives of predict_hierarchical are as many as there
\* are candidates, up to five, in non-increasing order of normalized
\* probability, and the first of them is the predicted component, also when
\* candidates tie for the largest probability.
C26_PrimaryLeadsTop5 ==
  (call.op = "predict_hierarchical" /\ call.response.result.source = "hierarchical_ml") =>
    /\ Len(call.response.result.top5) = Min(5, Len(call.normalized_probs))
    /\ \A k \in 1..(Len(call.response.result.top5) - 1) :
         call.response.result.top5[k].confidence >= call.response.result.top5[k + 1].confidence
    /\ call.response.result.top5[1].label = call.response.result.comp

\* C27: a call of _load_models that returns the category mapping as loaded
\* returns the complete reverse mapping with it, so that predict_hierarchical
\* does not answer mapping_not_loaded, whatever another thread is doing in
\* _load_models.
C27_LoadedMappingHasReverse ==
  \A t \in Loaders :
    (in_flight[t].pc = "returned" /\ ~in_flight[t].returned.category_mapping.is_none) =>
      /\ ~in_flight[t].returned.component_to_category.is_none
      /\ in_flight[t].returned.component_to_category.value =
           reverse_mapping(in_flight[t].returned.category_mapping.value)
      /\ predict_loaded(NeedHelpText, in_flight[t].returned).source # "mapping_not_loaded"

\* 'zoom mic', 'teams mic', 'discord mic': an application and 'mic'
AppMicTexts == {join(<<app, <<"m","i","c">>>>) : app \in {<<"z","o","o","m">>, <<"t","e","a","m","s">>, <<"d","i","s","c","o","r","d">>}}

\* 'zoom no sound', 'teams no sound'
AppNoSoundTexts == {join(<<app, <<"n","o"," ","s","o","u","n","d">>>>) : app \in {<<"z","o","o","m">>, <<"t","e","a","m","s">>}}

\* C28: match_rule classifies a text that names zoom, teams or discord
\* together with 'mic' as Microphone Upgrade, and a text that names zoom or
\* teams together with 'no sound' as Audio Issue, not as Webcam Upgrade.
C28_ApplicationRulesFirst ==
  call.op = "match_rule" =>
    /\ call.text \in AppMicTexts => call.response.component = "Microphone Upgrade"
    /\ call.text \in AppNoSoundTexts => call.response.component = "Audio Issue"

\* every text that satisfies rule i satisfies the earlier rule j: each
\* keyword of rule j is a substring of a keyword of rule i
shadows(j, i) ==
  j < i /\ \A kw \in keywords_of(j) : \E longer \in keywords_of(i) : Contains(lower(longer), lower(kw))

\* C29: every rule of RULES can be returned by match_rule: a rule whose
\* keywords are the text of the call is shadowed by no earlier rule.
C29_NoRuleShadowed ==
  call.op = "match_rule" =>
    \A i \in 1..Len(RULES) :
      call.text = keywords_text(RULES[i]) => \A j \in 1..Len(RULES) : ~shadows(j, i)

\* the category predict_hierarchical predicted for the text of the call
predicted_category ==
  hierarchical_globals.category_model.classes[
    argmax(predict_proba(hierarchical_globals.category_model, call.text))]

\* the components the mapping lists under the predicted category
predicted_components ==
  components_of(hierarchical_globals.category_mapping.value, predicted_category)

====
